---- MODULE Spec2Model ----
(***************************************************************************)
(* otaripper: the parallel extent-oriented extraction engine (src/cmd.rs). *)
(*                                                                         *)
(* Sizes inside an image are counted in cells; a block is CellsPerBlock    *)
(* cells.  Machine words are WordBits wide, so that the checked and the    *)
(* unchecked arithmetic of the source can be told apart.                   *)
(***************************************************************************)
EXTENDS Integers, Sequences, FiniteSets, TLC

\* ------------------------------------------------------------------ bounds
WordBits == 6
MaxBlk == 2
MaxExtents == 3
CellsPerBlock == 2
DigestMod == 5

U64_MAX == 2 ^ WordBits - 1
WordMod == 2 ^ WordBits

\* ------------------------------------------------------------- Option<T>
None == {}
Some(v) == {v}
is_some(o) == o # {}
unwrap(o) == CHOOSE v \in o : TRUE

\* Result<T>: a record [ok |-> BOOLEAN, ...]
Err(kind) == [ok |-> FALSE, err |-> kind]

RECURSIVE SumSeq(_)
SumSeq(s) == IF s = <<>> THEN 0 ELSE Head(s) + SumSeq(Tail(s))

RECURSIVE Flatten(_)
Flatten(ss) == IF ss = <<>> THEN <<>> ELSE Head(ss) \o Flatten(Tail(ss))

Range(s) == {s[i] : i \in DOMAIN s}

\* All orders in which a sort by key may leave its input, given the sequence
\* of the keys: permutations of 1..Len(keys) along which the key never
\* decreases (ties in any order).
SortedOrders(keys) ==
  {p \in [1 .. Len(keys) -> 1 .. Len(keys)] :
     /\ \A i, j \in 1 .. Len(keys) : i # j => p[i] # p[j]
     /\ \A i \in 1 .. Len(keys) - 1 : keys[p[i]] <= keys[p[i + 1]]}

\* ------------------------------------------------------- Extent Validator
Extent(s, n) == [start_block |-> Some(s), num_blocks |-> Some(n)]

\* One extent to (start, end), had the end been a wrapping sum
ExtentRange_WrappingEnd(e) ==
  IF ~is_some(e.start_block) THEN Err("missing start_block")
  ELSE IF ~is_some(e.num_blocks) THEN Err("missing num_blocks")
  ELSE [ok |-> TRUE, start |-> unwrap(e.start_block),
        end |-> (unwrap(e.start_block) + unwrap(e.num_blocks)) % WordMod]

\* cmd.rs 1482-1489: one extent to (start, end), end by checked_add
ExtentRange(e) ==
  IF ~is_some(e.start_block) THEN Err("missing start_block")
  ELSE IF ~is_some(e.num_blocks) THEN Err("missing num_blocks")
  ELSE IF unwrap(e.start_block) + unwrap(e.num_blocks) > U64_MAX
       THEN Err("extent end overflows u64")
  ELSE [ok |-> TRUE, start |-> unwrap(e.start_block),
        end |-> unwrap(e.start_block) + unwrap(e.num_blocks)]

\* cmd.rs 1479-1481: operations.iter().flat_map(|op| op.dst_extents.iter())
AllExtents(operations) ==
  Flatten([i \in DOMAIN operations |-> operations[i].dst_extents])

RangeStart(r) == r.start

\* The sweep, had it compared each start with the previous start
SweepOk_PrevStart(ranges, order) ==
  \A i \in 1 .. Len(ranges) :
    ranges[order[i]].start >= (IF i = 1 THEN 0 ELSE ranges[order[i - 1]].start)

\* cmd.rs 1492-1501: the sweep over the sorted ranges; last_end starts at 0
\* and is overwritten by every range's end.
SweepOk(ranges, order) ==
  \A i \in 1 .. Len(ranges) :
    ranges[order[i]].start >= (IF i = 1 THEN 0 ELSE ranges[order[i - 1]].end)

\* The validator, had it accepted every list
validate_accepts_all(operations) == {[ok |-> TRUE]}

\* cmd.rs 1478-1503.  The outcomes validate_non_overlapping_extents can have
\* on one operation list: sort_unstable_by_key leaves equal starts in an
\* unspecified order, so the set has one outcome per order of the ties.
validate_non_overlapping_extents(operations) ==
  LET exts == AllExtents(operations)
      rs == [i \in DOMAIN exts |-> ExtentRange(exts[i])]
  IN IF \E i \in DOMAIN rs : ~rs[i].ok
     THEN {Err((rs[CHOOSE i \in DOMAIN rs :
                    ~rs[i].ok /\ \A j \in 1 .. i - 1 : rs[j].ok]).err)}
     ELSE {IF SweepOk(rs, p) THEN [ok |-> TRUE]
           ELSE Err("Overlapping destination extents detected")
             : p \in SortedOrders([i \in DOMAIN rs |-> RangeStart(rs[i])])}

\* ---------------------------------------------------- Operation Executor
\* ring::digest(&SHA256, data) (cmd.rs 1461), scaled to DigestMod values: a
\* position-weighted checksum, so that content and order both matter.
RECURSIVE DigestFrom(_, _)
DigestFrom(data, i) ==
  IF i > Len(data) THEN 0
  ELSE (i * (data[i] + 1) + DigestFrom(data, i + 1)) % DigestMod
Digest(data) == DigestFrom(data, 1)

\* cmd.rs 1460-1471
verify_sha256_returning(data, exp_hash) ==
  IF Digest(data) = exp_hash THEN [ok |-> TRUE, digest |-> Digest(data)]
  ELSE Err("hash mismatch")

\* cmd.rs 1473-1476
verify_sha256(data, exp_hash) ==
  IF verify_sha256_returning(data, exp_hash).ok THEN [ok |-> TRUE]
  ELSE Err("hash mismatch")

\* extract_data, had it left out the hash check
extract_data_unverified(op, payload_data, no_verify) ==
  IF ~is_some(op.data_length) THEN Err("data_length not defined")
  ELSE IF ~is_some(op.data_offset) THEN Err("data_offset not defined")
  ELSE LET end_offset == unwrap(op.data_offset) + unwrap(op.data_length)
       IN IF end_offset > U64_MAX THEN Err("data_offset + data_length overflows")
          ELSE IF end_offset > Len(payload_data) THEN Err("data range exceeds payload size")
          ELSE [ok |-> TRUE, data |-> SubSeq(payload_data, unwrap(op.data_offset) + 1, end_offset)]

\* cmd.rs 1398-1422.  payload_data is payload.data; the hash is checked on
\* the raw slice, before any decoding.
extract_data(op, payload_data, no_verify) ==
  IF ~is_some(op.data_length) THEN Err("data_length not defined")
  ELSE IF ~is_some(op.data_offset) THEN Err("data_offset not defined")
  ELSE LET data_len == unwrap(op.data_length)
           offset == unwrap(op.data_offset)
           end_offset == offset + data_len
       IN IF end_offset > U64_MAX THEN Err("data_offset + data_length overflows")
          ELSE IF end_offset > Len(payload_data) THEN Err("data range exceeds payload size")
          ELSE LET data == SubSeq(payload_data, offset + 1, end_offset)
               IN IF ~no_verify /\ is_some(op.data_sha256_hash)
                     /\ ~verify_sha256(data, unwrap(op.data_sha256_hash)).ok
                  THEN Err("input verification failed")
                  ELSE [ok |-> TRUE, data |-> data]

\* cmd.rs 1446-1452: `start + len` is a plain usize addition.  With overflow
\* checks (debug profile) it panics when the sum leaves the word; without
\* them (release profile) it wraps.
PlainAdd(a, b, overflow_checks) ==
  IF a + b > U64_MAX
  THEN (IF overflow_checks THEN [panic |-> TRUE, v |-> 0]
        ELSE [panic |-> FALSE, v |-> (a + b) % WordMod])
  ELSE [panic |-> FALSE, v |-> a + b]

\* One extent, had the pointer been left at the base of the mapping
DstExtent_AtBase(extent, partition_len, block_size, overflow_checks) ==
  IF ~is_some(extent.start_block) THEN Err("missing start_block")
  ELSE IF ~is_some(extent.num_blocks) THEN Err("missing num_blocks")
  ELSE LET start == unwrap(extent.start_block) * block_size
           len == unwrap(extent.num_blocks) * block_size
       IN IF start > U64_MAX THEN Err("start_block * block_size overflows")
          ELSE IF len > U64_MAX THEN Err("num_blocks * block_size overflows")
          ELSE IF len = 0 THEN Err("extent length cannot be zero")
          ELSE IF PlainAdd(start, len, overflow_checks).panic THEN Err("panic")
          ELSE IF PlainAdd(start, len, overflow_checks).v > partition_len
               THEN Err("extent exceeds partition size")
          ELSE [ok |-> TRUE, off |-> 0, len |-> len]

\* cmd.rs 1433-1456: one extent of the loop; (off, len) in cells
DstExtent(extent, partition_len, block_size, overflow_checks) ==
  IF ~is_some(extent.start_block) THEN Err("missing start_block")
  ELSE IF ~is_some(extent.num_blocks) THEN Err("missing num_blocks")
  ELSE LET start == unwrap(extent.start_block) * block_size
           len == unwrap(extent.num_blocks) * block_size
       IN IF start > U64_MAX THEN Err("start_block * block_size overflows")
          ELSE IF len > U64_MAX THEN Err("num_blocks * block_size overflows")
          ELSE IF len = 0 THEN Err("extent length cannot be zero")
          ELSE IF PlainAdd(start, len, overflow_checks).panic THEN Err("panic")
          ELSE IF PlainAdd(start, len, overflow_checks).v > partition_len
               THEN Err("extent exceeds partition size")
          ELSE [ok |-> TRUE, off |-> start, len |-> len]

\* cmd.rs 1425-1458: the first failing extent decides; otherwise the list
extract_dst_extents_raw(op, partition_len, block_size, overflow_checks) ==
  LET rs == [i \in DOMAIN op.dst_extents |->
               DstExtent(op.dst_extents[i], partition_len, block_size, overflow_checks)]
  IN IF \E i \in DOMAIN rs : ~rs[i].ok
     THEN Err((rs[CHOOSE i \in DOMAIN rs :
                   ~rs[i].ok /\ \A j \in 1 .. i - 1 : rs[j].ok]).err)
     ELSE [ok |-> TRUE, extents |-> [i \in DOMAIN rs |-> [off |-> rs[i].off, len |-> rs[i].len]]]

\* ----------------------------------------------------------- ExtentsWriter
\* cmd.rs 138-152.  A slice is [off, len]: the cells off .. off+len-1 of the
\* partition image.  idx counts from 0 as in the source.
ExtentsWriter_new(extents) == [extents |-> extents, idx |-> 0, off |-> 0]

\* cmd.rs 154-157
has_capacity(w) == w.idx < Len(w.extents)

\* cmd.rs 159-166
current_extent_capacity(w) ==
  IF w.idx < Len(w.extents)
  THEN (IF w.extents[w.idx + 1].len >= w.off THEN w.extents[w.idx + 1].len - w.off ELSE 0)
  ELSE 0

Min(a, b) == IF a <= b THEN a ELSE b

\* cmd.rs 169-196: copies what fits into the current slice; `writes` lists
\* the stores <<address, value>> in the order they are made.
write_to_current_extent(w, data) ==
  LET available == current_extent_capacity(w) IN
  IF available = 0 \/ data = <<>>
  THEN [w |-> w, n |-> 0, writes |-> <<>>]
  ELSE LET to_copy == Min(available, Len(data))
           extent == w.extents[w.idx + 1]
           off2 == w.off + to_copy
       IN [w |-> IF off2 >= extent.len
                 THEN [w EXCEPT !.idx = w.idx + 1, !.off = 0]
                 ELSE [w EXCEPT !.off = off2],
           n |-> to_copy,
           writes |-> [k \in 1 .. to_copy |-> <<extent.off + w.off + (k - 1), data[k]>>]]

\* cmd.rs 199-219: io::Write::write
RECURSIVE WriteLoop(_, _, _, _)
WriteLoop(w, buf, total_written, writes) ==
  IF buf # <<>> /\ has_capacity(w)
  THEN LET r == write_to_current_extent(w, buf)
       IN IF r.n = 0
          THEN [w |-> w, n |-> total_written, writes |-> writes]
          ELSE WriteLoop(r.w, SubSeq(buf, r.n + 1, Len(buf)),
                         total_written + r.n, writes \o r.writes)
  ELSE [w |-> w, n |-> total_written, writes |-> writes]

ExtentsWriter_write(w, buf) ==
  IF buf = <<>> THEN [w |-> w, n |-> 0, writes |-> <<>>]
  ELSE WriteLoop(w, buf, 0, <<>>)

\* The copy, had a short write been taken for the end of the data
io_copy_ShortWriteOk(decoded, w) ==
  LET r == ExtentsWriter_write(w, decoded)
  IN [ok |-> TRUE, n |-> r.n, writes |-> r.writes]

\* std::io::copy into the writer (cmd.rs 1256): write_all fails with
\* WriteZero as soon as write() accepts nothing of a non-empty rest, after
\* the accepted part has been stored.
io_copy(decoded, w) ==
  LET r == ExtentsWriter_write(w, decoded)
  IN IF r.n < Len(decoded)
     THEN [ok |-> FALSE, err |-> "failed to write to buffer", writes |-> r.writes]
     ELSE [ok |-> TRUE, n |-> r.n, writes |-> r.writes]

\* BzDecoder / XzDecoder (cmd.rs 1236, 1241), scaled: a run-length code in
\* which every input cell stands for two output cells of its value.
RECURSIVE Decode(_)
Decode(raw) ==
  IF raw = <<>> THEN <<>> ELSE <<Head(raw), Head(raw)>> \o Decode(Tail(raw))

\* cmd.rs 1258-1261 / 1277-1280: saturating ceiling to a block multiple
AlignUp(bytes_read, block_size) ==
  LET a == Min(bytes_read + (block_size - 1), U64_MAX)
  IN Min((a \div block_size) * block_size, U64_MAX)

DstLen(dst_extents) == SumSeq([i \in DOMAIN dst_extents |-> dst_extents[i].len])

\* cmd.rs 1249-1267: streaming path; the size rule is checked after the copy
run_op_replace(decoded, dst_extents, block_size) ==
  LET c == io_copy(decoded, ExtentsWriter_new(dst_extents))
  IN IF ~c.ok THEN c
     ELSE IF AlignUp(c.n, block_size) # DstLen(dst_extents)
          THEN [ok |-> FALSE, err |-> "more dst blocks than data, even with padding",
                writes |-> c.writes]
          ELSE [ok |-> TRUE, writes |-> c.writes]

\* cmd.rs 1269-1293: direct path; the size rule is checked before the write
run_op_replace_slice(data, dst_extents, block_size) ==
  IF AlignUp(Len(data), block_size) # DstLen(dst_extents)
  THEN [ok |-> FALSE, err |-> "more dst blocks than data, even with padding",
        writes |-> <<>>]
  ELSE LET r == ExtentsWriter_write(ExtentsWriter_new(dst_extents), data)
       IN IF r.n # Len(data)
          THEN [ok |-> FALSE, err |-> "failed to write all data to destination extents",
                writes |-> r.writes]
          ELSE [ok |-> TRUE, writes |-> r.writes]

FullTypes == {"Replace", "ReplaceBz", "ReplaceXz", "Zero", "Discard"}
\* cmd.rs 632-639: the types the extraction guard and the list label look for
GuardedTypes == {"SourceCopy", "SourceBsdiff", "BrotliBsdiff", "Puffdiff", "Zucchini"}
Lz4Types == {"Lz4diffBsdiff", "Lz4diffPuffdiff"}

NoWrites(r) == [ok |-> FALSE, err |-> r.err, writes |-> <<>>]

\* cmd.rs 1209-1247.  The result of one operation and the stores it makes,
\* in order; they depend on the manifest and the payload only.
run_op_raw(op, payload_data, partition_len, block_size, no_verify, overflow_checks) ==
  LET raw_extents == extract_dst_extents_raw(op, partition_len, block_size, overflow_checks)
      data == extract_data(op, payload_data, no_verify)
  IN IF ~raw_extents.ok THEN NoWrites(raw_extents)
     ELSE IF op.type = "Replace"
          THEN (IF ~data.ok THEN NoWrites(data)
                ELSE run_op_replace_slice(data.data, raw_extents.extents, block_size))
     ELSE IF op.type \in {"ReplaceBz", "ReplaceXz"}
          THEN (IF ~data.ok THEN NoWrites(data)
                ELSE run_op_replace(Decode(data.data), raw_extents.extents, block_size))
     ELSE IF op.type \in {"Zero", "Discard"} THEN [ok |-> TRUE, writes |-> <<>>]
     ELSE [ok |-> FALSE, err |-> "Unsupported operation type", writes |-> <<>>]

\* ------------------------------------------------------------ Cmd::run
\* Program constants
MIN_BLOCK_SIZE == 512
MAX_BLOCK_SIZE == 16777216
MAX_THREADS == 256

VARIABLES
  manifest,     \* DeltaArchiveManifest: [block_size, partitions]
  payload,      \* payload.data, a sequence of cells
  cfg,          \* the Cmd flags
  env,          \* [overflow_checks, dir_existed]
  pc,           \* position of the thread that runs Cmd::run and the scope closure
  sel,          \* selected partitions (indices into manifest.partitions) in extraction order
  li,           \* position of the spawning loop in sel
  scope_err,    \* the Err the scope closure returned, if any
  cancel,       \* cancellation_token
  dir,          \* [exists, is_new]: the extraction directory
  disk,         \* names of the partitions whose <name>.img exists in the directory
  registry,     \* cleanup_state.0: the registered output files
  image,        \* partition index -> the mapped output file (<<>> before it is opened)
  remaining,    \* partition index -> remaining_ops
  task,         \* <<partition, op>> -> the state of the spawned closure
  hash_chan,    \* HashRec channel
  stats_chan,   \* Stat channel
  printed,      \* the names of the hash lines, as printed
  result,       \* what Cmd::run returned
  post_runs,    \* partition index -> how often its post-processing was entered
  fin, fout,    \* argument and result of a function applied on its own
  stderr,       \* the error and warning lines printed, in order
  exit_code     \* the code std::process::exit was called with, if it was

vars == <<manifest, payload, cfg, env, pc, sel, li, scope_err, cancel, dir, disk,
          registry, image, remaining, task, hash_chan, stats_chan, printed, result,
          post_runs, fin, fout, stderr, exit_code>>

Parts == manifest.partitions
Ops(p) == Parts[p].operations
TaskIds == UNION {{<<p, k>> : k \in DOMAIN Ops(p)} : p \in DOMAIN Parts}

PartSize(u) == IF is_some(u.size) THEN unwrap(u.size) ELSE 0

\* cmd.rs 785, 791, 938: the partition filter
Selected_All(u) == u.partition_name = u.partition_name

Selected(u) == cfg.partitions = {} \/ u.partition_name \in cfg.partitions

\* cmd.rs 630-641
has_incremental_ops ==
  \E p \in DOMAIN Parts : \E k \in DOMAIN Ops(p) : Ops(p)[k].type \in GuardedTypes

\* cmd.rs 669-678
is_patch(u) == \E k \in DOMAIN u.operations : u.operations[k].type \in GuardedTypes

StrictOk_AllPartitions ==
  \A p \in DOMAIN Parts :
    /\ is_some(Parts[p].hash)
    /\ \A k \in DOMAIN Ops(p) :
         (is_some(Ops(p)[k].data_length) /\ unwrap(Ops(p)[k].data_length) > 0)
           => is_some(Ops(p)[k].data_sha256_hash)

\* cmd.rs 789-814
StrictOk ==
  \A p \in DOMAIN Parts :
    Selected(Parts[p]) =>
      /\ is_some(Parts[p].hash)
      /\ \A k \in DOMAIN Ops(p) :
           (is_some(Ops(p)[k].data_length) /\ unwrap(Ops(p)[k].data_length) > 0)
             => is_some(Ops(p)[k].data_sha256_hash)

NegSize(p) == 0 - PartSize(Parts[p])

\* cmd.rs 736-744 then 934-940: sort_unstable_by_key(Reverse(size)), then the
\* filter; ties are left in an unspecified order.
ExtractionOrders ==
  LET RECURSIVE Keep(_)
      Keep(q) == IF q = <<>> THEN <<>>
                 ELSE IF Selected(Parts[Head(q)]) THEN <<Head(q)>> \o Keep(Tail(q))
                 ELSE Keep(Tail(q))
  IN {Keep([i \in DOMAIN Parts |-> o[i]]) :
        o \in SortedOrders([i \in DOMAIN Parts |-> NegSize(i)])}

\* The fresh file, had it kept stale bytes
Zeros_Stale(n) == [i \in 1 .. n |-> 1]

Zeros(n) == [i \in 1 .. n |-> 0]

Finish(r) ==
  /\ pc' = "done"
  /\ result' = Some(r)

\* cmd.rs 597-925: everything before the scope.  It fails without having
\* created anything, or lists, or leaves the directory created and the
\* cleanup state empty.
Setup ==
  /\ pc = "start"
  /\ UNCHANGED <<manifest, payload, cfg, env, li, scope_err, cancel, disk, registry,
                 image, remaining, task, hash_chan, stats_chan, post_runs,
                 fin, fout, stderr, exit_code>>
  /\ IF is_some(cfg.threads) /\ unwrap(cfg.threads) > MAX_THREADS
     THEN Finish(Err("Thread count")) /\ UNCHANGED <<sel, dir, printed>>
     ELSE IF ~is_some(manifest.block_size)
     THEN Finish(Err("missing block_size")) /\ UNCHANGED <<sel, dir, printed>>
     ELSE IF ~(unwrap(manifest.block_size) >= MIN_BLOCK_SIZE
               /\ unwrap(manifest.block_size) <= MAX_BLOCK_SIZE)
     THEN Finish(Err("invalid block size")) /\ UNCHANGED <<sel, dir, printed>>
     ELSE IF cfg.list
     THEN /\ Finish([ok |-> TRUE])   \* the rows of the listing (their order by name is left out)
          /\ printed' = [i \in DOMAIN Parts |->
                           <<Parts[i].partition_name,
                             IF is_patch(Parts[i]) THEN "Incremental" ELSE "Full">>]
          /\ UNCHANGED <<sel, dir>>
     ELSE IF has_incremental_ops
     THEN Finish(Err("UnsupportedIncremental")) /\ UNCHANGED <<sel, dir, printed>>
     ELSE IF \E n \in cfg.partitions : \A p \in DOMAIN Parts : Parts[p].partition_name # n
     THEN Finish(Err("partition not found in manifest")) /\ UNCHANGED <<sel, dir, printed>>
     ELSE IF cfg.strict /\ ~StrictOk
     THEN Finish(Err("MissingHash")) /\ UNCHANGED <<sel, dir, printed>>
     ELSE /\ \E o \in ExtractionOrders : sel' = o
          /\ dir' = [exists |-> TRUE, is_new |-> ~env.dir_existed]
          /\ pc' = "loop"
          /\ UNCHANGED <<result, printed>>

\* ---------------------------------------------------- the scope closure
Cur == sel[li]

ScopeReturns(e) ==
  /\ pc' = "join"
  /\ scope_err' = e

\* cmd.rs 934-947: the head of one iteration of the spawning loop: the end
\* of the loop, the extent validation of this partition, the cancellation
\* check.
LoopValidate ==
  /\ pc = "loop"
  /\ UNCHANGED <<manifest, payload, cfg, env, sel, li, cancel, dir, disk, registry, image,
                 remaining, task, hash_chan, stats_chan, printed, result, post_runs,
                 fin, fout, stderr, exit_code>>
  /\ IF li > Len(sel) THEN ScopeReturns(None)
     ELSE \E v \in validate_non_overlapping_extents(Ops(Cur)) :
            IF ~v.ok THEN ScopeReturns(Some("Invalid extents"))
            ELSE IF cancel THEN ScopeReturns(None)
            ELSE pc' = "open" /\ UNCHANGED scope_err

\* The sink factory, had a missing size been taken as 0
open_partition_file_SizeOrZero(update) ==
  IF update.partition_name \in disk THEN Err("unable to open file for writing")
  ELSE [ok |-> TRUE, mmap |-> Zeros(PartSize(update)), path |-> update.partition_name]

\* cmd.rs 1369-1396: create_new, set_len (zero-filled), map
open_partition_file(update) ==
  IF ~is_some(update.size) THEN Err("unable to determine output file size")
  ELSE IF update.partition_name \in disk THEN Err("unable to open file for writing")
  ELSE [ok |-> TRUE, mmap |-> Zeros(unwrap(update.size)), path |-> update.partition_name]

\* cmd.rs 948-951
LoopOpen ==
  /\ pc = "open"
  /\ UNCHANGED <<manifest, payload, cfg, env, sel, li, cancel, dir, registry, remaining, task,
                 hash_chan, stats_chan, printed, result, post_runs, fin, fout, stderr, exit_code>>
  /\ LET f == open_partition_file(Parts[Cur])
     IN IF ~f.ok
        THEN ScopeReturns(Some(f.err)) /\ UNCHANGED <<disk, image>>
        ELSE /\ disk' = disk \cup {f.path}
             /\ image' = [image EXCEPT ![Cur] = f.mmap]
             /\ pc' = "register"
             /\ UNCHANGED scope_err

\* cmd.rs 953-1090: the file is registered, the counter set, one task spawned
\* per operation; the loop goes on to the next partition.
LoopSpawn ==
  /\ pc = "register"
  /\ registry' = Append(registry, Parts[Cur].partition_name)
  /\ remaining' = [remaining EXCEPT ![Cur] = Len(Ops(Cur))]
  /\ task' = [t \in TaskIds |->
                IF t[1] = Cur THEN [task[t] EXCEPT !.pc = "spawned", !.order = li - 1]
                ELSE task[t]]
  /\ li' = li + 1
  /\ pc' = "loop"
  /\ UNCHANGED <<manifest, payload, cfg, env, sel, scope_err, cancel, dir, disk, image,
                 hash_chan, stats_chan, printed, result, post_runs, fin, fout, stderr, exit_code>>

\* ------------------------------------------------------------- one task
InScope == pc \in {"loop", "open", "register", "join"}

\* The entry of a task, had the check taken the token (swap(false))
TaskBegin_TakesToken(t) ==
  /\ InScope /\ task[t].pc = "spawned"
  /\ IF cancel
     THEN task' = [task EXCEPT ![t].pc = "skipped"]
     ELSE LET r == run_op_raw(Ops(t[1])[t[2]], payload, Len(image[t[1]]),
                              CellsPerBlock, cfg.no_verify, env.overflow_checks)
          IN task' = [task EXCEPT ![t].pc = "running", ![t].ok = r.ok, ![t].writes = r.writes]
  /\ cancel' = FALSE
  /\ UNCHANGED <<manifest, payload, cfg, env, pc, sel, li, scope_err, dir, disk,
                 registry, image, remaining, hash_chan, stats_chan, printed, result,
                 post_runs, fin, fout, stderr, exit_code>>

\* The start of a task, had it not looked at the token
TaskBegin_RunsAnyway(t) ==
  /\ InScope /\ task[t].pc = "spawned"
  /\ LET r == run_op_raw(Ops(t[1])[t[2]], payload, Len(image[t[1]]),
                         CellsPerBlock, cfg.no_verify, env.overflow_checks)
     IN task' = [task EXCEPT ![t].pc = "running", ![t].ok = r.ok, ![t].writes = r.writes]
  /\ UNCHANGED <<manifest, payload, cfg, env, pc, sel, li, scope_err, cancel, dir, disk,
                 registry, image, remaining, hash_chan, stats_chan, printed, result,
                 post_runs, fin, fout, stderr, exit_code>>

\* cmd.rs 978-995: the cancellation check at entry, then run_op_raw up to its
\* first store into the image
TaskBegin(t) ==
  /\ InScope /\ task[t].pc = "spawned"
  /\ IF cancel
     THEN task' = [task EXCEPT ![t].pc = "skipped"]
     ELSE LET r == run_op_raw(Ops(t[1])[t[2]], payload, Len(image[t[1]]),
                              CellsPerBlock, cfg.no_verify, env.overflow_checks)
          IN task' = [task EXCEPT ![t].pc = "running", ![t].ok = r.ok, ![t].writes = r.writes]
  /\ UNCHANGED <<manifest, payload, cfg, env, pc, sel, li, scope_err, cancel, dir, disk,
                 registry, image, remaining, hash_chan, stats_chan, printed, result,
                 post_runs, fin, fout, stderr, exit_code>>

\* one store of the operation into the shared mapping
TaskWrite(t) ==
  /\ InScope /\ task[t].pc = "running" /\ task[t].n < Len(task[t].writes)
  /\ LET w == task[t].writes[task[t].n + 1]
     IN image' = [image EXCEPT ![t[1]][w[1] + 1] = w[2]]
  /\ task' = [task EXCEPT ![t].n = task[t].n + 1]
  /\ UNCHANGED <<manifest, payload, cfg, env, pc, sel, li, scope_err, cancel, dir, disk,
                 registry, remaining, hash_chan, stats_chan, printed, result, post_runs,
                 fin, fout, stderr, exit_code>>

\* The end of a task, had every successful decrement gone on to post-processing
TaskEnd_EveryDecrementPosts(t) ==
  /\ InScope /\ task[t].pc = "running" /\ task[t].n = Len(task[t].writes)
  /\ IF ~task[t].ok
     THEN /\ cancel' = TRUE
          /\ stderr' = Append(stderr, <<"Operation failed", t>>)
          /\ task' = [task EXCEPT ![t].pc = "failed"]
          /\ UNCHANGED <<remaining, post_runs>>
     ELSE /\ remaining' = [remaining EXCEPT ![t[1]] = remaining[t[1]] - 1]
          /\ task' = [task EXCEPT ![t].pc = "verify"]
          /\ post_runs' = [post_runs EXCEPT ![t[1]] = post_runs[t[1]] + 1]
          /\ UNCHANGED <<cancel, stderr>>
  /\ UNCHANGED <<manifest, payload, cfg, env, pc, sel, li, scope_err, dir, disk, registry,
                 image, hash_chan, stats_chan, printed, result, fin, fout, exit_code>>

\* cmd.rs 996-1005: the result of run_op_raw; an error sets the token and
\* returns, a success decrements remaining_ops and the decrement that saw 1
\* goes on to post-processing.
TaskEnd(t) ==
  /\ InScope /\ task[t].pc = "running" /\ task[t].n = Len(task[t].writes)
  /\ IF ~task[t].ok
     THEN /\ cancel' = TRUE
          /\ stderr' = Append(stderr, <<"Operation failed", t>>)
          /\ task' = [task EXCEPT ![t].pc = "failed"]
          /\ UNCHANGED <<remaining, post_runs>>
     ELSE /\ remaining' = [remaining EXCEPT ![t[1]] = remaining[t[1]] - 1]
          /\ IF remaining[t[1]] = 1
             THEN /\ task' = [task EXCEPT ![t].pc = "verify"]
                  /\ post_runs' = [post_runs EXCEPT ![t[1]] = post_runs[t[1]] + 1]
             ELSE /\ task' = [task EXCEPT ![t].pc = "done"]
                  /\ UNCHANGED post_runs
          /\ UNCHANGED <<cancel, stderr>>
  /\ UNCHANGED <<manifest, payload, cfg, env, pc, sel, li, scope_err, dir, disk, registry,
                 image, hash_chan, stats_chan, printed, result, fin, fout, exit_code>>

\* ------------------------------------------------------ post-processing
\* cmd.rs 356-371 (every dispatch level answers the same question)
is_all_zero(buf) == \A i \in DOMAIN buf : buf[i] = 0

PostFrame == UNCHANGED <<manifest, payload, cfg, env, pc, sel, li, scope_err, dir, disk,
                         registry, image, remaining, printed, result, post_runs, fin, fout,
                         exit_code>>

\* cmd.rs 1011-1044: verification of the whole image against the manifest hash
PostVerify(t) ==
  /\ InScope /\ task[t].pc = "verify"
  /\ LET update == Parts[t[1]]
         v == verify_sha256_returning(image[t[1]], unwrap(update.hash))
     IN IF ~cfg.no_verify /\ is_some(update.hash)
        THEN IF v.ok
             THEN /\ task' = [task EXCEPT ![t].pc = "check1", ![t].digest = Some(v.digest)]
                  /\ UNCHANGED <<cancel, stderr>>
             ELSE /\ cancel' = TRUE
                  /\ stderr' = Append(stderr, <<"Output verification failed", t>>)
                  /\ task' = [task EXCEPT ![t].pc = "post_failed"]
        ELSE IF ~cfg.no_verify /\ cfg.strict
        THEN /\ cancel' = TRUE
             /\ stderr' = Append(stderr, <<"Strict mode: missing partition hash", t>>)
             /\ task' = [task EXCEPT ![t].pc = "post_failed"]
        ELSE /\ task' = [task EXCEPT ![t].pc = "check1"]
             /\ UNCHANGED <<cancel, stderr>>
  /\ UNCHANGED <<hash_chan, stats_chan>>
  /\ PostFrame

\* cmd.rs 1047-1051 and 1062-1066: the two cancellation checks
PostCheck(t) ==
  /\ InScope /\ task[t].pc \in {"check1", "check2"}
  /\ task' = [task EXCEPT ![t].pc = IF cancel THEN "post_cancelled"
                                     ELSE IF task[t].pc = "check1" THEN "sanity"
                                     ELSE "report"]
  /\ UNCHANGED <<cancel, hash_chan, stats_chan, stderr>>
  /\ PostFrame

\* cmd.rs 1053-1060
PostSanity(t) ==
  /\ InScope /\ task[t].pc = "sanity"
  /\ IF cfg.sanity /\ is_all_zero(image[t[1]])
     THEN /\ cancel' = TRUE
          /\ stderr' = Append(stderr, <<"Sanity check failed", t>>)
          /\ task' = [task EXCEPT ![t].pc = "post_failed"]
     ELSE /\ task' = [task EXCEPT ![t].pc = "check2"]
          /\ UNCHANGED <<cancel, stderr>>
  /\ UNCHANGED <<hash_chan, stats_chan>>
  /\ PostFrame

\* cmd.rs 1067-1088: the hash record (the verified digest is reused), the
\* statistics record, the progress tick
PostReport(t) ==
  /\ InScope /\ task[t].pc = "report"
  /\ hash_chan' = IF cfg.print_hash
                  THEN Append(hash_chan,
                              [order |-> task[t].order,
                               name |-> Parts[t[1]].partition_name,
                               hex |-> IF is_some(task[t].digest) THEN unwrap(task[t].digest)
                                       ELSE Digest(image[t[1]])])
                  ELSE hash_chan
  /\ stats_chan' = IF cfg.stats
                   THEN Append(stats_chan, [name |-> Parts[t[1]].partition_name,
                                            bytes |-> Len(image[t[1]])])
                   ELSE stats_chan
  /\ task' = [task EXCEPT ![t].pc = "done"]
  /\ UNCHANGED <<cancel, stderr>>
  /\ PostFrame

\* ------------------------------------------------------- after the scope
\* Over, had a skipped task not counted as finished
TaskOver_ButSkipped(t) == task[t].pc \in {"none", "failed", "done", "post_failed", "post_cancelled"}

TaskOver(t) == task[t].pc \in {"none", "skipped", "failed", "done", "post_failed", "post_cancelled"}

\* The return of the scope, had it not waited for the tasks
Join_NoWait ==
  /\ pc = "join"
  /\ IF is_some(scope_err)
     THEN Finish(Err(unwrap(scope_err)))
     ELSE pc' = "after_scope" /\ UNCHANGED result
  /\ UNCHANGED <<manifest, payload, cfg, env, sel, li, scope_err, cancel, dir, disk, registry,
                 image, remaining, task, hash_chan, stats_chan, printed, post_runs,
                 fin, fout, stderr, exit_code>>

\* cmd.rs 926, 1093: the scope returns once the closure has returned and
\* every spawned task is over; `?` passes the closure's Err on as it is.
Join ==
  /\ pc = "join"
  /\ \A t \in TaskIds : TaskOver(t)
  /\ IF is_some(scope_err)
     THEN Finish(Err(unwrap(scope_err)))
     ELSE pc' = "after_scope" /\ UNCHANGED result
  /\ UNCHANGED <<manifest, payload, cfg, env, sel, li, scope_err, cancel, dir, disk, registry,
                 image, remaining, task, hash_chan, stats_chan, printed, post_runs,
                 fin, fout, stderr, exit_code>>

\* After the scope, had the driver not looked at the flag
AfterScope_NoCheck ==
  /\ pc = "after_scope"
  /\ registry' = <<>>
  /\ pc' = "report"
  /\ UNCHANGED <<disk, dir, result>>
  /\ UNCHANGED <<manifest, payload, cfg, env, sel, li, scope_err, cancel, image, remaining,
                 task, hash_chan, stats_chan, printed, post_runs, fin, fout, stderr, exit_code>>

\* cmd.rs 1095-1116: the cancellation check of the driver: the registered
\* files and a new directory are removed and the run fails, or the registry
\* is cleared.
AfterScope ==
  /\ pc = "after_scope"
  /\ IF cancel
     THEN /\ disk' = IF dir.is_new THEN {} ELSE disk \ Range(registry)
          /\ dir' = IF dir.is_new THEN [dir EXCEPT !.exists = FALSE] ELSE dir
          /\ Finish(Err("Extraction was aborted due to critical errors"))
          /\ UNCHANGED registry
     ELSE /\ registry' = <<>>
          /\ pc' = "report"
          /\ UNCHANGED <<disk, dir, result>>
  /\ UNCHANGED <<manifest, payload, cfg, env, sel, li, scope_err, cancel, image, remaining,
                 task, hash_chan, stats_chan, printed, post_runs, fin, fout, stderr, exit_code>>

\* v.sort_by_key(|r| r.order) (cmd.rs 1124): a stable sort
RECURSIVE InsertByOrder(_, _)
InsertByOrder(r, sorted) ==
  IF sorted = <<>> THEN <<r>>
  ELSE IF Head(sorted).order <= r.order THEN <<Head(sorted)>> \o InsertByOrder(r, Tail(sorted))
  ELSE <<r>> \o sorted
RECURSIVE SortByOrder(_)
SortByOrder(v) ==
  IF v = <<>> THEN <<>> ELSE InsertByOrder(v[Len(v)], SortByOrder(SubSeq(v, 1, Len(v) - 1)))

\* cmd.rs 1117-1183: the hash lines in order, the statistics, the summary
Report ==
  /\ pc = "report"
  /\ printed' = [i \in DOMAIN hash_chan |-> SortByOrder(hash_chan)[i].name]
  /\ hash_chan' = <<>>
  /\ stats_chan' = <<>>
  /\ registry' = <<>>
  /\ Finish([ok |-> TRUE])
  /\ UNCHANGED <<manifest, payload, cfg, env, sel, li, scope_err, cancel, dir, disk, image,
                 remaining, task, post_runs, fin, fout, stderr, exit_code>>

\* ------------------------------------------------- the interrupt handler
EXIT_INTERRUPT == 130

\* The main thread is in, or about to enter, a section that holds the
\* cleanup_state lock (cmd.rs 953-955, 1098-1108, 1114-1116, 1171-1173):
\* a try_lock of the handler, which runs on a thread of its own, can fail.
LockMayBeHeld == pc \in {"register", "after_scope", "report"}

\* The handler, had it removed the registered files only
ctrlc_handler_FilesOnly(got_lock) ==
  /\ cancel' = TRUE
  /\ IF got_lock
     THEN disk' = disk \ Range(registry) /\ UNCHANGED <<dir, stderr>>
     ELSE /\ stderr' = Append(stderr, <<"Could not acquire cleanup lock">>)
          /\ UNCHANGED <<disk, dir>>
  /\ exit_code' = Some(EXIT_INTERRUPT)
  /\ pc' = "exited"

\* cmd.rs 830-876: the closure given to ctrlc::set_handler.  The token is
\* set; with the lock, the registered files are removed, and the directory
\* with all it holds if the run created it; the process exits.
ctrlc_handler(got_lock) ==
  /\ cancel' = TRUE
  /\ IF got_lock
     THEN /\ disk' = IF dir.is_new /\ dir.exists THEN {} ELSE disk \ Range(registry)
          /\ dir' = IF dir.is_new THEN [dir EXCEPT !.exists = FALSE] ELSE dir
          /\ UNCHANGED stderr
     ELSE /\ stderr' = Append(stderr, <<"Could not acquire cleanup lock">>)
          /\ UNCHANGED <<disk, dir>>
  /\ exit_code' = Some(EXIT_INTERRUPT)
  /\ pc' = "exited"

\* An interrupt signal arrives once the handler is installed and before
\* Cmd::run returns.
Interrupt ==
  /\ pc \in {"loop", "open", "register", "join", "after_scope", "report"}
  /\ \E got_lock \in (IF LockMayBeHeld THEN BOOLEAN ELSE {TRUE}) : ctrlc_handler(got_lock)
  /\ UNCHANGED <<manifest, payload, cfg, env, sel, li, scope_err, registry, image,
                 remaining, task, hash_chan, stats_chan, printed, result, post_runs,
                 fin, fout>>

\* ------------------------------------------------- inputs of the model
Op(type, exts, off, len, hash) ==
  [type |-> type, dst_extents |-> exts, data_offset |-> Some(off),
   data_length |-> Some(len), data_sha256_hash |-> hash]

\* payload.data: three blocks of distinct non-zero cells
PayloadData == [i \in 1 .. 3 * CellsPerBlock |-> i]

ExtCells(exts) == SumSeq([i \in DOMAIN exts |-> unwrap(exts[i].num_blocks) * CellsPerBlock])

\* The input length with which an operation of this type fills its extents
FitLen(type, exts) ==
  IF type = "Replace" THEN ExtCells(exts)
  ELSE IF type \in {"ReplaceBz", "ReplaceXz"} THEN ExtCells(exts) \div 2
  ELSE 0

OtherHash(h) == (h + 1) % DigestMod

\* An operation of the given type on the given extents reading at off;
\* fault says what is wrong with it: its input is a block short or a block
\* long, or its hash is wrong.
MkOp(type, exts, off, fault) ==
  LET fit == FitLen(type, exts)
      len == IF fault = "op_short" THEN (IF fit >= CellsPerBlock THEN fit - CellsPerBlock ELSE 0)
             ELSE IF fault = "op_long" THEN fit + CellsPerBlock
             ELSE fit
      good == IF off + len <= Len(PayloadData)
              THEN Digest(SubSeq(PayloadData, off + 1, off + len)) ELSE 0
  IN Op(type, exts, off, len,
        IF fault = "op_nohash" THEN None
        ELSE IF fault = "op_badhash" THEN Some(OtherHash(good))
        ELSE Some(good))

\* The shapes of an operation list: <<type, extents, block of payload.data at
\* which the input starts>> per operation: none; two operations side by side;
\* one operation on two extents listed backwards, with a gap; a Zero and a
\* Replace; two operations that overlap.
Layouts ==
  { <<>>,
    << <<"Replace", <<Extent(0, 1)>>, 0>>, <<"ReplaceBz", <<Extent(1, 1)>>, 1>> >>,
    << <<"Replace", <<Extent(2, 1), Extent(0, 1)>>, 1>> >>,
    << <<"Zero", <<Extent(0, 1)>>, 0>>, <<"ReplaceXz", <<Extent(1, 1)>>, 1>> >>,
    << <<"Replace", <<Extent(0, 2)>>, 0>>, <<"Replace", <<Extent(1, 1)>>, 2>> >> }

\* The blocks a layout reaches: the declared size of its partition
RECURSIVE MaxEnd(_)
MaxEnd(exts) ==
  IF exts = <<>> THEN 0
  ELSE LET e == unwrap(Head(exts).start_block) + unwrap(Head(exts).num_blocks)
           m == MaxEnd(Tail(exts))
       IN IF e > m THEN e ELSE m
LayoutBlocks(lay) ==
  LET b == MaxEnd(Flatten([i \in DOMAIN lay |-> lay[i][2]])) IN IF b = 0 THEN 1 ELSE b

Faults == {"none", "op_badhash", "op_short", "op_long", "part_badhash", "part_nohash", "no_size"}

LayoutOps(lay, fault) ==
  [i \in DOMAIN lay |-> MkOp(lay[i][1], lay[i][2], lay[i][3] * CellsPerBlock,
                             IF i = Len(lay) THEN fault ELSE "none")]

RECURSIVE ApplyWrites(_, _)
ApplyWrites(img, writes) ==
  IF writes = <<>> THEN img
  ELSE ApplyWrites([img EXCEPT ![Head(writes)[1] + 1] = Head(writes)[2]], Tail(writes))

\* The stores of operation k of a partition, as run_op_raw makes them
OpWrites(ops, k, partition_len, no_verify) ==
  run_op_raw(ops[k], PayloadData, partition_len, CellsPerBlock, no_verify, FALSE).writes

\* The image the operations of a partition produce when they run one after
\* the other, in manifest order, on the zero-filled file
RECURSIVE ImageAfter(_, _, _, _)
ImageAfter(ops, k, partition_len, no_verify) ==
  IF k = 0 THEN Zeros(partition_len)
  ELSE ApplyWrites(ImageAfter(ops, k - 1, partition_len, no_verify),
                   OpWrites(ops, k, partition_len, no_verify))
SequentialImage(ops, partition_len, no_verify) ==
  ImageAfter(ops, Len(ops), partition_len, no_verify)

MkPart(name, lay, fault) ==
  LET len == LayoutBlocks(lay) * CellsPerBlock
      ops == LayoutOps(lay, fault)
      good == Digest(SequentialImage(ops, len, FALSE))
  IN [partition_name |-> name,
      size |-> IF fault = "no_size" THEN None ELSE Some(len),
      hash |-> IF fault = "part_nohash" THEN None
               ELSE IF fault = "part_badhash" THEN Some(OtherHash(good))
               ELSE Some(good),
      operations |-> ops]

PartsNamed(name) == {MkPart(name, lay, f) : lay \in Layouts, f \in Faults}

Manifests ==
  {[block_size |-> Some(MIN_BLOCK_SIZE), partitions |-> <<a>>] : a \in PartsNamed("a")}
  \cup {[block_size |-> Some(MIN_BLOCK_SIZE), partitions |-> <<a, b>>] :
          a \in PartsNamed("a"), b \in PartsNamed("b")}

DefaultCfg ==
  [list |-> FALSE, partitions |-> {}, no_verify |-> FALSE, strict |-> FALSE,
   sanity |-> FALSE, print_hash |-> FALSE, stats |-> FALSE, threads |-> None]

NewTask == [pc |-> "none", n |-> 0, ok |-> TRUE, writes |-> <<>>, order |-> 0, digest |-> None]

\* The state in which Cmd::run is entered
InitRun(m, c, e) ==
  /\ manifest = m
  /\ payload = PayloadData
  /\ cfg = c
  /\ env = e
  /\ pc = (IF m.partitions = <<>> THEN "idle" ELSE "start")
  /\ sel = <<>>
  /\ li = 1
  /\ scope_err = None
  /\ cancel = FALSE
  /\ dir = [exists |-> e.dir_existed, is_new |-> FALSE]
  /\ disk = {}
  /\ registry = <<>>
  /\ image = [p \in DOMAIN m.partitions |-> <<>>]
  /\ remaining = [p \in DOMAIN m.partitions |-> 0]
  /\ task = [t \in UNION {{<<p, k>> : k \in DOMAIN m.partitions[p].operations} :
                            p \in DOMAIN m.partitions} |-> NewTask]
  /\ hash_chan = <<>>
  /\ stats_chan = <<>>
  /\ printed = <<>>
  /\ result = None
  /\ post_runs = [p \in DOMAIN m.partitions |-> 0]
  /\ stderr = <<>>
  /\ exit_code = None

\* Verification is switched off on the manifests of one partition only
Init ==
  /\ \E m \in Manifests :
       \E nv \in (IF Len(m.partitions) = 1 THEN BOOLEAN ELSE {FALSE}) :
         InitRun(m, [DefaultCfg EXCEPT !.no_verify = nv],
                 [overflow_checks |-> FALSE, dir_existed |-> FALSE])
  /\ fin = <<>>
  /\ fout = <<>>

Next ==
  \/ Setup
  \/ LoopValidate
  \/ LoopOpen
  \/ LoopSpawn
  \/ \E t \in TaskIds : TaskBegin(t)
  \/ \E t \in TaskIds : TaskWrite(t)
  \/ \E t \in TaskIds : TaskEnd(t)
  \/ \E t \in TaskIds : PostVerify(t)
  \/ \E t \in TaskIds : PostCheck(t)
  \/ \E t \in TaskIds : PostSanity(t)
  \/ \E t \in TaskIds : PostReport(t)
  \/ Join
  \/ AfterScope
  \/ Report

Spec == Init /\ [][Next]_vars

\* ---------------------------------------------- runs with interrupts
\* Small partitions of two sizes, an lz4diff and a source-copy operation
\* among them; hash lines are asked for, the directory may exist already.
SmallLayouts ==
  { << <<"Replace", <<Extent(0, 1)>>, 0>> >>,
    << <<"Replace", <<Extent(0, 1)>>, 0>>, <<"ReplaceBz", <<Extent(1, 1)>>, 1>> >>,
    << <<"Lz4diffBsdiff", <<Extent(0, 1)>>, 0>> >>,
    << <<"SourceCopy", <<Extent(0, 1)>>, 0>> >> }

SmallFaults == {"none", "op_badhash"}

SmallPartsNamed(name) == {MkPart(name, lay, f) : lay \in SmallLayouts, f \in SmallFaults}

SmallManifests ==
  {[block_size |-> Some(MIN_BLOCK_SIZE), partitions |-> <<a, b>>] :
     a \in SmallPartsNamed("a"), b \in SmallPartsNamed("b")}

InitSignals ==
  /\ \E m \in SmallManifests :
       \E existed \in BOOLEAN :
         InitRun(m, [DefaultCfg EXCEPT !.print_hash = TRUE],
                 [overflow_checks |-> FALSE, dir_existed |-> existed])
  /\ fin = <<>>
  /\ fout = <<>>

NextSignals ==
  \/ Next
  \/ Interrupt

SpecSignals == InitSignals /\ [][NextSignals]_vars

\* Runs under fair scheduling: the thread of Cmd::run takes a step it can
\* take, and so does the pool for the tasks it holds.
InitLive ==
  /\ \E fa \in SmallFaults, fb \in SmallFaults :
       InitRun([block_size |-> Some(MIN_BLOCK_SIZE),
                partitions |->
                  <<MkPart("a", << <<"Replace", <<Extent(0, 1)>>, 0>>,
                                   <<"ReplaceBz", <<Extent(1, 1)>>, 1>> >>, fa),
                    MkPart("b", << <<"Replace", <<Extent(0, 1)>>, 0>> >>, fb)>>],
               [DefaultCfg EXCEPT !.print_hash = TRUE],
               [overflow_checks |-> FALSE, dir_existed |-> FALSE])
  /\ fin = <<>>
  /\ fout = <<>>

\* What ENABLED <<\E t \in TaskIds : TaskBegin(t)>>_vars comes to: a task that
\* was spawned and has not started can start, and starting changes its pc.
TaskBeginEnabled == InScope /\ \E t \in TaskIds : task[t].pc = "spawned"

\* WF_vars(\E t \in TaskIds : TaskBegin(t)), with the enabling condition
\* written out
FairTaskBegin ==
  \/ []<>(~TaskBeginEnabled)
  \/ []<><<\E t \in TaskIds : TaskBegin(t)>>_vars

SpecLive ==
  /\ InitLive
  /\ [][Next]_vars
  /\ WF_vars(Setup \/ LoopValidate \/ LoopOpen \/ LoopSpawn \/ Join \/ AfterScope \/ Report)
  /\ WF_vars(\E t \in TaskIds :
               \/ TaskWrite(t) \/ TaskEnd(t)
               \/ PostVerify(t) \/ PostCheck(t) \/ PostSanity(t) \/ PostReport(t))
  /\ FairTaskBegin

\* ------------------------------------------------- runs with panics
\* cmd.rs 884-899: the closure given to std::panic::set_hook, once it has the
\* lock: the registered files are removed, and the directory with all it
\* holds if the run created it.
panic_hook ==
  /\ disk' = IF dir.is_new THEN {} ELSE disk \ Range(registry)
  /\ dir' = IF dir.is_new THEN [dir EXCEPT !.exists = FALSE] ELSE dir
  /\ stderr' = Append(stderr, <<"Extraction aborted due to an error">>)

\* A worker panics inside run_op_raw.  The hook runs on that thread and calls
\* cleanup_state.lock() (cmd.rs 886), which waits while another thread holds
\* the lock.
TaskPanics(t) ==
  /\ InScope /\ task[t].pc = "running"
  /\ \E held \in (IF LockMayBeHeld THEN BOOLEAN ELSE {FALSE}) :
       IF held
       THEN /\ task' = [task EXCEPT ![t].pc = "hook_waiting"]
            /\ UNCHANGED <<disk, dir, stderr>>
       ELSE /\ task' = [task EXCEPT ![t].pc = "panicked"]
            /\ panic_hook
  /\ UNCHANGED <<manifest, payload, cfg, env, pc, sel, li, scope_err, cancel, registry,
                 image, remaining, hash_chan, stats_chan, printed, result, post_runs,
                 fin, fout, exit_code>>

\* The lock is released (cmd.rs 955) and the waiting hook gets it
HookAcquires(t) ==
  /\ task[t].pc = "hook_waiting" /\ pc # "register" /\ pc # "exited"
  /\ task' = [task EXCEPT ![t].pc = "panicked"]
  /\ panic_hook
  /\ UNCHANGED <<manifest, payload, cfg, env, pc, sel, li, scope_err, cancel, registry,
                 image, remaining, hash_chan, stats_chan, printed, result, post_runs,
                 fin, fout, exit_code>>

\* cmd.rs 926, 1093: the scope waits for the other tasks and resumes the
\* panic on the thread of Cmd::run, which never returns
Unwind ==
  /\ pc = "join"
  /\ \A t \in TaskIds : TaskOver(t) \/ task[t].pc = "panicked"
  /\ \E t \in TaskIds : task[t].pc = "panicked"
  /\ pc' = "unwound"
  /\ UNCHANGED <<manifest, payload, cfg, env, sel, li, scope_err, cancel, dir, disk,
                 registry, image, remaining, task, hash_chan, stats_chan, printed, result,
                 post_runs, fin, fout, stderr, exit_code>>

NextPanics ==
  \/ NextSignals
  \/ \E t \in TaskIds : TaskPanics(t)
  \/ \E t \in TaskIds : HookAcquires(t)
  \/ Unwind

SpecPanics == InitSignals /\ [][NextPanics]_vars

\* ------------------------------------------ runs under the option flags
\* cmd.rs 1526-1534: the size the pool is built with; None is the default
\* of the builder (the detected parallelism).
get_threadpool(threads) ==
  IF is_some(threads) /\ unwrap(threads) > 0 THEN Some(unwrap(threads)) ELSE None

\* Partitions of the kinds the flags tell apart: without operations, of one
\* and of two operations, all zero, of an incremental and of an lz4diff type.
OptionLayouts ==
  { <<>>,
    << <<"Replace", <<Extent(0, 1)>>, 0>> >>,
    << <<"Replace", <<Extent(0, 1)>>, 0>>, <<"ReplaceBz", <<Extent(1, 1)>>, 1>> >>,
    << <<"Zero", <<Extent(0, 1)>>, 0>> >>,
    << <<"SourceCopy", <<Extent(0, 1)>>, 0>> >>,
    << <<"Lz4diffBsdiff", <<Extent(0, 1)>>, 0>> >> }

OptionFaults == {"none", "part_nohash", "op_nohash"}

OptionPartsNamed(name) ==
  {MkPart(name, lay, f) : lay \in OptionLayouts, f \in OptionFaults}

OptionManifests ==
  {[block_size |-> Some(MIN_BLOCK_SIZE), partitions |-> <<a, b>>] :
     a \in OptionPartsNamed("a"), b \in OptionPartsNamed("b")}

\* --list, --partitions (one name, a name the manifest lacks), --strict
\* (alone and with --partitions), --sanity
OptionCfgs ==
  { [DefaultCfg EXCEPT !.list = TRUE],
    [DefaultCfg EXCEPT !.partitions = {"a"}],
    [DefaultCfg EXCEPT !.partitions = {"b", "c"}],
    [DefaultCfg EXCEPT !.strict = TRUE],
    [DefaultCfg EXCEPT !.strict = TRUE, !.partitions = {"a"}],
    [DefaultCfg EXCEPT !.sanity = TRUE] }

\* -t 0, 1, 256, 257
ThreadCounts == {0, 1, MAX_THREADS, MAX_THREADS + 1}

\* block_size below, at and above the two ends of the range, and inside it:
\* a power of two and a value that is none
BlockSizes ==
  {MIN_BLOCK_SIZE - 1, MIN_BLOCK_SIZE, MIN_BLOCK_SIZE + 1, 2 * MIN_BLOCK_SIZE,
   3 * MIN_BLOCK_SIZE, MAX_BLOCK_SIZE - 1, MAX_BLOCK_SIZE, MAX_BLOCK_SIZE + 1}

\* A manifest of two plain partitions, for the runs that vary the thread
\* count or the block size
PlainManifest(block_size) ==
  [block_size |-> block_size,
   partitions |-> << MkPart("a", << <<"Replace", <<Extent(0, 1)>>, 0>> >>, "none"),
                     MkPart("b", << <<"Replace", <<Extent(0, 1)>>, 0>>,
                                    <<"ReplaceBz", <<Extent(1, 1)>>, 1>> >>, "none") >>]

InitOptions ==
  /\ \/ \E m \in OptionManifests : \E c \in OptionCfgs :
          InitRun(m, c, [overflow_checks |-> FALSE, dir_existed |-> FALSE])
     \/ \E t \in ThreadCounts :
          InitRun(PlainManifest(Some(MIN_BLOCK_SIZE)), [DefaultCfg EXCEPT !.threads = Some(t)],
                  [overflow_checks |-> FALSE, dir_existed |-> FALSE])
     \/ \E bs \in {None} \cup {Some(b) : b \in BlockSizes} :
          InitRun(PlainManifest(bs), DefaultCfg,
                  [overflow_checks |-> FALSE, dir_existed |-> FALSE])
  /\ fin = <<>>
  /\ fout = <<>>

SpecOptions == InitOptions /\ [][Next]_vars

\* ------------------------------------ functions applied on their own
\* Cmd::run is not running: no manifest is loaded
Idle ==
  InitRun([block_size |-> None, partitions |-> <<>>], DefaultCfg,
          [overflow_checks |-> FALSE, dir_existed |-> FALSE])

RunVars == <<manifest, payload, cfg, env, pc, sel, li, scope_err, cancel, dir, disk,
             registry, image, remaining, task, hash_chan, stats_chan, printed, result,
             post_runs, stderr, exit_code>>

RECURSIVE SeqsUpTo(_, _)
SeqsUpTo(S, n) ==
  IF n = 0 THEN {<<>>}
  ELSE LET shorter == SeqsUpTo(S, n - 1)
       IN shorter \cup {Append(q, x) : q \in {r \in shorter : Len(r) = n - 1}, x \in S}

\* validate_non_overlapping_extents on its own.  fin is the list of all
\* destination extents; the action cuts it into two operations in the middle,
\* or leaves the second operation without extents.
ValidatorExtents ==
  {Extent(s, n) : s \in 0 .. MaxBlk, n \in 0 .. MaxBlk} \cup {Extent(U64_MAX, 1)}

InitValidate ==
  /\ Idle
  /\ fin \in SeqsUpTo(ValidatorExtents, MaxExtents)
  /\ fout = <<>>

OpsCutAt(exts, k) ==
  << [dst_extents |-> SubSeq(exts, 1, k)], [dst_extents |-> SubSeq(exts, k + 1, Len(exts))] >>

Validate ==
  /\ fout = <<>>
  /\ \E k \in {Len(fin) \div 2, Len(fin)} :
       \E v \in validate_non_overlapping_extents(OpsCutAt(fin, k)) :
         fout' = <<v>>
  /\ UNCHANGED fin
  /\ UNCHANGED RunVars

SpecValidate == InitValidate /\ [][Validate]_vars

\* extract_dst_extents_raw on its own
HighWords == {2 ^ (WordBits - 2), 2 ^ (WordBits - 1), U64_MAX}

ExtractExtents ==
  {Extent(s, n) : s \in (0 .. MaxBlk) \cup HighWords, n \in (0 .. MaxBlk) \cup HighWords}

InitExtents ==
  /\ Idle
  /\ \E exts \in SeqsUpTo(ExtractExtents, 2) \ {<<>>} :
       \E plen \in {0, CellsPerBlock, MaxBlk * CellsPerBlock} :
         \E oc \in BOOLEAN :
           fin = [dst_extents |-> exts, partition_len |-> plen,
                  block_size |-> CellsPerBlock, overflow_checks |-> oc]
  /\ fout = <<>>

ExtractDst ==
  /\ fout = <<>>
  /\ fout' = <<extract_dst_extents_raw(fin, fin.partition_len, fin.block_size,
                                        fin.overflow_checks)>>
  /\ UNCHANGED fin
  /\ UNCHANGED RunVars

SpecExtents == InitExtents /\ [][ExtractDst]_vars

\* validate_non_overlapping_extents on its own, at the top of the u64 range
TopWords == {0, 1, U64_MAX - 1, U64_MAX}

OverflowExtents == {Extent(s, n) : s \in TopWords, n \in TopWords}

InitOverflow ==
  /\ Idle
  /\ fin \in SeqsUpTo(OverflowExtents, 2)
  /\ fout = <<>>

SpecOverflow == InitOverflow /\ [][Validate]_vars

\* ------------------------------------------------------------ payload.rs
\* A byte takes ByteMod values, so that the 8-byte and 4-byte big-endian
\* fields of the header stay small: u64 and usize hold ByteMod^8 values, u32
\* holds ByteMod^4.  The offsets of the header are the real ones.
ByteMod == 2
USIZE_MAX == ByteMod ^ 8 - 1
ISIZE_MAX == (USIZE_MAX - 1) \div 2
U32_MAX == ByteMod ^ 4 - 1

\* payload.rs 3
PAYLOAD_MAGIC == <<"C", "r", "A", "U">>

\* payload.rs 107: 64 * 1024 * 1024, a 64th of the u32 range, scaled to the
\* byte of the model
MAX_SIGNATURE_SIZE == ByteMod ^ 3

RECURSIVE from_be_bytes(_)
from_be_bytes(b) ==
  IF b = <<>> THEN 0
  ELSE b[Len(b)] + ByteMod * from_be_bytes(SubSeq(b, 1, Len(b) - 1))

\* `as usize`
as_usize(v) == v % (USIZE_MAX + 1)

checked_add(a, b) == IF a + b > USIZE_MAX THEN None ELSE Some(a + b)

\* A buffer is its length and its first bytes (as many as the header may
\* take); bytes[a..b] of the header
Bytes(bytes, a, b) == SubSeq(bytes.head, a + 1, b)

\* A slice of the buffer is the range of indices it aliases
Slice(lo, hi) == [lo |-> lo, hi |-> hi]

header_size_FromV1(file_format_version) == IF file_format_version >= 1 THEN 24 ELSE 20

\* payload.rs 114
header_size(file_format_version) == IF file_format_version >= 2 THEN 24 ELSE 20

\* payload.rs 18-151
Payload_parse(bytes) ==
  IF bytes.len < 20 THEN Err("Payload too short to contain base header")
  ELSE IF Bytes(bytes, 0, 4) # PAYLOAD_MAGIC THEN Err("Expected OTA payload header")
  ELSE
  LET file_format_version == from_be_bytes(Bytes(bytes, 4, 12)) IN
  IF file_format_version > 2 THEN Err("Unsupported payload version")
  ELSE
  LET manifest_size == from_be_bytes(Bytes(bytes, 12, 20)) IN
  IF file_format_version >= 2 /\ bytes.len < 24
  THEN Err("Version 2 payload requires at least 24-byte header")
  ELSE
  LET metadata_sig_size_u32 ==
        IF file_format_version >= 2 THEN from_be_bytes(Bytes(bytes, 20, 24)) ELSE 0
  IN
  IF metadata_sig_size_u32 > MAX_SIGNATURE_SIZE
  THEN Err("Metadata signature size is unreasonably large")
  ELSE
  LET manifest_start == header_size(file_format_version)
      manifest_end == checked_add(manifest_start, as_usize(manifest_size))
  IN
  IF ~is_some(manifest_end) THEN Err("Manifest size overflow")
  ELSE IF unwrap(manifest_end) > bytes.len
  THEN Err("Declared manifest size exceeds payload length")
  ELSE
  LET data_start == checked_add(unwrap(manifest_end), as_usize(metadata_sig_size_u32)) IN
  IF ~is_some(data_start) THEN Err("Metadata signature size overflow")
  ELSE IF unwrap(data_start) > bytes.len
  THEN Err("Metadata signature extends beyond end of payload")
  ELSE [ok |-> TRUE,
        file_format_version |-> file_format_version,
        manifest_size |-> manifest_size,
        manifest |-> Slice(manifest_start, unwrap(manifest_end)),
        metadata_signature |->
          IF metadata_sig_size_u32 > 0
          THEN Some(Slice(unwrap(manifest_end), unwrap(data_start)))
          ELSE None,
        data |-> Slice(unwrap(data_start), bytes.len)]

\* Payload::parse on its own.  The buffers: a header written field by field,
\* cut or extended to a length around what the header declares.
to_be_bytes(v, n) == [i \in 1 .. n |-> (v \div ByteMod ^ (n - i)) % ByteMod]

ParseMagics == {PAYLOAD_MAGIC, <<"P", "K", "x", "y">>}
ParseVersions == {0, 1, 2, 3, USIZE_MAX}
ParseManifestSizes ==
  {0, 1, MAX_SIGNATURE_SIZE, 4 * MAX_SIGNATURE_SIZE, 4 * MAX_SIGNATURE_SIZE + 1,
   ISIZE_MAX - 24, USIZE_MAX - 24, USIZE_MAX - 23, USIZE_MAX}
ParseSignatureSizes == {0, 1, MAX_SIGNATURE_SIZE, MAX_SIGNATURE_SIZE + 1, U32_MAX}

ParseLengths(ms, sig) ==
  ({0, 19, 20, 23, 24, ISIZE_MAX}
     \cup {h + ms + x + d : h \in {20, 24}, x \in {0, sig}, d \in {0 - 1, 0, 1}})
  \cap (0 .. ISIZE_MAX)

ParseHeader(magic, v, ms, sig) ==
  magic \o to_be_bytes(v, 8) \o to_be_bytes(ms, 8) \o to_be_bytes(sig, 4)

ParseBuffers ==
  {[len |-> n, head |-> SubSeq(ParseHeader(magic, v, ms, sig), 1, Min(n, 24))] :
     <<magic, v, ms, sig, n>> \in
       {q \in ParseMagics \X ParseVersions \X ParseManifestSizes
               \X ParseSignatureSizes \X (0 .. ISIZE_MAX) :
          q[5] \in ParseLengths(q[3], q[4])}}

InitParse ==
  /\ Idle
  /\ fin \in ParseBuffers
  /\ fout = <<>>

Parse ==
  /\ fout = <<>>
  /\ fout' = <<Payload_parse(fin)>>
  /\ UNCHANGED fin
  /\ UNCHANGED RunVars

SpecParse == InitParse /\ [][Parse]_vars

\* run_op_replace and run_op_replace_slice on their own, on the same bytes:
\* the input as it is (Replace) or decoded (ReplaceBz, ReplaceXz).  The
\* slices are those extract_dst_extents_raw makes of extents the validator
\* accepts.
ReplaceExtents == {Extent(s, n) : s \in 0 .. MaxBlk, n \in 1 .. MaxBlk}

ReplacePartitionLen == 2 * MaxBlk * CellsPerBlock

ReplaceSlices ==
  {extract_dst_extents_raw([dst_extents |-> exts], ReplacePartitionLen,
                           CellsPerBlock, FALSE).extents :
     exts \in {e \in SeqsUpTo(ReplaceExtents, 2) :
                 \E v \in validate_non_overlapping_extents(<<[dst_extents |-> e]>>) : v.ok}}

ReplaceInputs ==
  {[i \in 1 .. n |-> 1 + (i % 2)] : n \in 0 .. ReplacePartitionLen + CellsPerBlock + 1}

InitReplace ==
  /\ Idle
  /\ \E data \in ReplaceInputs : \E slices \in ReplaceSlices :
       fin = [data |-> data, dst_extents |-> slices, block_size |-> CellsPerBlock]
  /\ fout = <<>>

Replace(type) ==
  /\ fout = <<>>
  /\ LET bytes == IF type = "Replace" THEN fin.data ELSE Decode(fin.data)
     IN fout' = <<[type |-> type,
                   bytes |-> bytes,
                   slice |-> run_op_replace_slice(bytes, fin.dst_extents, fin.block_size),
                   stream |-> run_op_replace(bytes, fin.dst_extents, fin.block_size)]>>
  /\ UNCHANGED fin
  /\ UNCHANGED RunVars

NextReplace == \E type \in {"Replace", "ReplaceBz", "ReplaceXz"} : Replace(type)

SpecReplace == InitReplace /\ [][NextReplace]_vars

\* ExtentsWriter on its own: a writer over any list of slices, any sequence
\* of write calls.  fin is the list of slices, laid out one after the other;
\* fout is the writer, the calls made so far and the stores they made.
RECURSIVE SlicesOf(_, _)
SlicesOf(lens, off) ==
  IF lens = <<>> THEN <<>>
  ELSE <<[off |-> off, len |-> Head(lens)]>> \o SlicesOf(Tail(lens), off + Head(lens))

WriterSlices == {SlicesOf(lens, 0) : lens \in SeqsUpTo(0 .. CellsPerBlock, MaxExtents)}

\* The buffer of the call after `calls` earlier ones: k bytes no other call has
WriterBuf(calls, k) == [i \in 1 .. k |-> calls * (CellsPerBlock + 1) + i]

InitWriter ==
  /\ Idle
  /\ fin \in WriterSlices
  /\ fout = [w |-> ExtentsWriter_new(fin), calls |-> <<>>, writes |-> <<>>]

WriterWrite ==
  /\ Len(fout.calls) < MaxExtents
  /\ \E k \in 0 .. CellsPerBlock :
       LET buf == WriterBuf(Len(fout.calls), k)
           r == ExtentsWriter_write(fout.w, buf)
       IN fout' = [w |-> r.w,
                   calls |-> Append(fout.calls, [buf |-> buf, n |-> r.n, idx |-> r.w.idx]),
                   writes |-> fout.writes \o r.writes]
  /\ UNCHANGED fin
  /\ UNCHANGED RunVars

SpecWriter == InitWriter /\ [][WriterWrite]_vars

\* is_all_zero on its own, at every dispatch level.  A register of the
\* narrowest level holds Lane bytes (16 in the source), and the wider ones
\* two and four times as many.
Lane == 2

\* cmd.rs 231-236
CpuSimd == {"None", "Sse2", "Avx2", "Avx512"}

\* cmd.rs 528, 550, 574: the bytes one load takes (64, 32, 16)
LaneWidth(level) ==
  CASE level = "Sse2" -> Lane
    [] level = "Avx2" -> 2 * Lane
    [] level = "Avx512" -> 4 * Lane

saturating_sub(a, b) == IF a >= b THEN a - b ELSE 0

\* cmpeq_epi8 against zero, then the mask of the bytes that compared equal
cmpeq_mask(chunk) ==
  SumSeq([k \in DOMAIN chunk |-> IF chunk[k] = 0 THEN 2 ^ (k - 1) ELSE 0])

\* The mask, had it been compared with that of the widest register
FullMask_Widest(width) == 2 ^ (4 * Lane) - 1

\* cmd.rs 534, 557, 580: u64::MAX, -1, 0xFFFF: one bit per byte of the load
FullMask(width) == 2 ^ width - 1

\* cmd.rs 523-592: the loop over whole loads, then the scalar tail
RECURSIVE SimdScan(_, _, _)
SimdScan(data, i, width) ==
  IF i < saturating_sub(Len(data), width - 1)
  THEN IF cmpeq_mask(SubSeq(data, i + 1, i + width)) # FullMask(width)
       THEN FALSE
       ELSE SimdScan(data, i + width, width)
  ELSE \A j \in i + 1 .. Len(data) : data[j] = 0

\* cmd.rs 357-371, for the level CpuSimd::get() returned
is_all_zero_at(level, data) ==
  IF level = "None" THEN \A j \in DOMAIN data : data[j] = 0
  ELSE SimdScan(data, 0, LaneWidth(level))

InitZeroCheck ==
  /\ Idle
  /\ \E level \in CpuSimd : \E data \in SeqsUpTo({0, 1}, 4 * Lane + 1) :
       fin = [level |-> level, data |-> data]
  /\ fout = <<>>

ZeroCheck ==
  /\ fout = <<>>
  /\ fout' = <<is_all_zero_at(fin.level, fin.data)>>
  /\ UNCHANGED fin
  /\ UNCHANGED RunVars

SpecZeroCheck == InitZeroCheck /\ [][ZeroCheck]_vars

\* =================================================================== claims
Start(e) == unwrap(e.start_block)
End(e) == unwrap(e.start_block) + unwrap(e.num_blocks)
NonEmpty(e) == unwrap(e.num_blocks) > 0
Intersect(e1, e2) == Start(e1) < End(e2) /\ Start(e2) < End(e1)
Validated == fout # <<>>
Accepted == fout # <<>> /\ fout[1].ok

\* C3: every operation list the validator accepts has its non-empty
\* destination extents pairwise disjoint, whichever operation they are in and
\* in whatever order they are listed.
Thm_C3_ValidatorSound ==
  Accepted =>
    \A i, j \in DOMAIN fin :
      (i # j /\ NonEmpty(fin[i]) /\ NonEmpty(fin[j])) => ~Intersect(fin[i], fin[j])

\* An accepted list with two non-empty extents, the later-listed one lying
\* before the other
Wit_C3_AcceptedUnordered ==
  /\ Accepted
  /\ \E i, j \in DOMAIN fin :
       i < j /\ NonEmpty(fin[i]) /\ NonEmpty(fin[j]) /\ End(fin[j]) <= Start(fin[i])

NoEndOverflows == \A i \in DOMAIN fin : End(fin[i]) <= U64_MAX
NonEmptyDisjoint ==
  \A i, j \in DOMAIN fin :
    (i # j /\ NonEmpty(fin[i]) /\ NonEmpty(fin[j])) => ~Intersect(fin[i], fin[j])

\* Some order of the equal starts makes the validator accept the list
AcceptedInSomeOrder ==
  \E v \in validate_non_overlapping_extents(OpsCutAt(fin, 0)) : v.ok

\* C4: the validator accepts every list without end overflow whose non-empty
\* extents are pairwise disjoint, wherever its zero-length extents start and
\* in whatever order the extents are listed. (A rejection that another order
\* of the equal starts would have avoided is not held against the claim.)
Cex_C4_ValidatorComplete ==
  (Validated /\ NoEndOverflows /\ NonEmptyDisjoint) => (fout[1].ok \/ AcceptedInSomeOrder)

\* C10: an operation is refused unless, for every destination extent, offset
\* and length are exact products and the exact sum offset + length is at
\* most the partition size.
Cex_C10_WithinPartition ==
  Accepted =>
    \A i \in DOMAIN fin.dst_extents :
      Start(fin.dst_extents[i]) * fin.block_size
        + unwrap(fin.dst_extents[i].num_blocks) * fin.block_size <= fin.partition_len

\* ------------------------------------------------- claims about Cmd::run
Succeeded == pc = "done" /\ unwrap(result).ok
Failed == pc = "done" /\ ~unwrap(result).ok
TasksOf(p) == {t \in TaskIds : t[1] = p}
PostPcs == {"verify", "check1", "sanity", "check2", "report", "post_failed", "post_cancelled"}

\* C1: whenever Cmd::run fails after an output file was created, no output
\* file is left on disk, nor the directory if the run created it.
Cex_C1_FailureLeavesNothing ==
  (Failed /\ registry # <<>>) => (disk = {} /\ (dir.is_new => ~dir.exists))

\* Every order of equal starts makes the validator reject the partition
Rejected(p) == \A v \in validate_non_overlapping_extents(Ops(p)) : ~v.ok

\* C2: if any selected partition has overlapping extents, no sink is created
\* and no task is spawned, at any time of the run.
Cex_C2_ValidationBeforeAnySink ==
  (\E p \in DOMAIN Parts : Selected(Parts[p]) /\ Rejected(p))
    => (disk = {} /\ \A t \in TaskIds : task[t].pc = "none")

\* The stores a task has made so far
Performed(t) == {task[t].writes[i] : i \in 1 .. task[t].n}
AllOver(p) == \A t \in TasksOf(p) : task[t].pc # "none" /\ TaskOver(t)

\* C5: once all tasks of a validated partition are over, whatever their
\* interleaving was, every cell an operation stored holds what that operation
\* stored there, and every cell no operation stored to is still zero.
Thm_C5_DisjointWritesKept ==
  \A p \in DOMAIN Parts :
    (image[p] # <<>> /\ AllOver(p)) =>
      /\ \A t \in TasksOf(p) : \A w \in Performed(t) : image[p][w[1] + 1] = w[2]
      /\ \A c \in DOMAIN image[p] :
           (\A t \in TasksOf(p) : \A w \in Performed(t) : w[1] + 1 # c) => image[p][c] = 0

\* Two operations of one partition have both stored cells and are over,
\* while a task of another partition is still running
Wit_C5_TwoWritersOver ==
  \E p \in DOMAIN Parts :
    /\ image[p] # <<>> /\ AllOver(p)
    /\ \E t1, t2 \in TasksOf(p) : t1 # t2 /\ task[t1].n > 0 /\ task[t2].n > 0
    /\ \E q \in DOMAIN Parts : q # p /\ \E t \in TasksOf(q) : task[t].pc = "running"

\* C6: whenever extraction succeeds with verification enabled, the image of
\* every selected partition that has a manifest hash digests to that hash.
Cex_C6_SuccessMeansVerified ==
  (Succeeded /\ ~cfg.no_verify /\ ~cfg.list) =>
    \A i \in DOMAIN sel :
      is_some(Parts[sel[i]].hash) => Digest(image[sel[i]]) = unwrap(Parts[sel[i]].hash)

\* The raw input of an operation does not digest to its data_sha256_hash
InputMismatch(op) ==
  /\ op.type \in {"Replace", "ReplaceBz", "ReplaceXz"}
  /\ is_some(op.data_sha256_hash) /\ is_some(op.data_offset) /\ is_some(op.data_length)
  /\ unwrap(op.data_offset) + unwrap(op.data_length) <= Len(payload)
  /\ Digest(SubSeq(payload, unwrap(op.data_offset) + 1,
                   unwrap(op.data_offset) + unwrap(op.data_length)))
       # unwrap(op.data_sha256_hash)

\* C7: with verification enabled, a Replace* operation whose raw input does
\* not match its data_sha256_hash fails, and it never stores a cell.
Thm_C7_InputHashBeforeWrite ==
  ~cfg.no_verify =>
    \A t \in TaskIds :
      InputMismatch(Ops(t[1])[t[2]]) =>
        /\ task[t].n = 0
        /\ task[t].pc \in {"none", "spawned", "skipped", "running", "failed"}
        /\ task[t].pc \in {"running", "failed"} => (~task[t].ok /\ task[t].writes = <<>>)

\* Such an operation has failed while another operation of its partition
\* had stored cells
Wit_C7_MismatchFailed ==
  /\ ~cfg.no_verify
  /\ \E t \in TaskIds :
       /\ InputMismatch(Ops(t[1])[t[2]]) /\ task[t].pc = "failed"
       /\ \E u \in TasksOf(t[1]) : u # t /\ task[u].n > 0

\* C8: post-processing of a partition is entered at most once, by the task
\* whose decrement left the counter at 0, after every operation of the
\* partition has ended its stores successfully; never when an operation of
\* the partition failed or was skipped.
Thm_C8_PostOnceAfterAll ==
  \A p \in DOMAIN Parts :
    /\ post_runs[p] <= 1
    /\ Cardinality({t \in TasksOf(p) : task[t].pc \in PostPcs}) <= post_runs[p]
    /\ post_runs[p] = 1 =>
         /\ remaining[p] = 0
         /\ \A t \in TasksOf(p) :
              /\ task[t].pc \in PostPcs \cup {"done"}
              /\ task[t].ok /\ task[t].n = Len(task[t].writes)
    /\ (\E t \in TasksOf(p) : task[t].pc \in {"failed", "skipped"}) => post_runs[p] = 0

\* The last of two operations is in post-processing, the other one is done
Wit_C8_LastTaskPosts ==
  \E p \in DOMAIN Parts :
    /\ Cardinality(TasksOf(p)) = 2
    /\ \E t1, t2 \in TasksOf(p) : task[t1].pc = "verify" /\ task[t2].pc = "done"

\* C9: a run that succeeds leaves in every selected partition the image its
\* operations produce when run one after the other: the interleaving of the
\* tasks does not show in the result.
Thm_C9_InterleavingIndependent ==
  (Succeeded /\ ~cfg.list) =>
    \A i \in DOMAIN sel :
      image[sel[i]] = SequentialImage(Ops(sel[i]), unwrap(Parts[sel[i]].size), cfg.no_verify)

\* A run has succeeded on a partition two operations stored to
Wit_C9_SuccessTwoWriters ==
  /\ Succeeded
  /\ \E p \in DOMAIN Parts :
       \E t1, t2 \in TasksOf(p) : t1 # t2 /\ task[t1].n > 0 /\ task[t2].n > 0

\* ------------------------------------------- claims about single extents
\* Every extent of the operation lies, by exact arithmetic, in the partition
ExactlyWithin ==
  \A i \in DOMAIN fin.dst_extents :
    Start(fin.dst_extents[i]) * fin.block_size
      + unwrap(fin.dst_extents[i].num_blocks) * fin.block_size <= fin.partition_len

\* C11: an operation whose extents all lie in the partition is accepted by
\* extract_dst_extents_raw also when one of them has num_blocks = 0.
Cex_C11_ZeroExtentNoOp ==
  (Validated /\ ExactlyWithin /\ \E i \in DOMAIN fin.dst_extents :
                                   unwrap(fin.dst_extents[i].num_blocks) = 0)
    => fout[1].ok

\* C12: the validator rejects as overflow every list with an extent whose
\* end leaves u64; it accepts the lone extent (0, u64::MAX) and rejects
\* (0, u64::MAX) followed by (u64::MAX, 1).
Thm_C12_EndOverflowRejected ==
  Validated =>
    /\ (\E i \in DOMAIN fin : End(fin[i]) > U64_MAX)
         => (~fout[1].ok /\ fout[1].err = "extent end overflows u64")
    /\ fin = <<Extent(0, U64_MAX)>> => fout[1].ok
    /\ fin = <<Extent(0, U64_MAX), Extent(U64_MAX, 1)>> => ~fout[1].ok

\* (0, u64::MAX) followed by (u64::MAX, 1) has been rejected
Wit_C12_TopExtentRejected ==
  /\ Validated /\ ~fout[1].ok
  /\ fin = <<Extent(0, U64_MAX), Extent(U64_MAX, 1)>>

\* ------------------------------------------- more claims about Cmd::run
\* The cells the destination extents of all operations of a partition cover
CoveredCells(p) == SumSeq([k \in DOMAIN Ops(p) |-> ExtCells(Ops(p)[k].dst_extents)])

\* C13: after a successful run, the destination extents of the operations of
\* every selected partition that has operations cover as many cells as the
\* declared size of the partition.
Cex_C13_ExtentsCoverImage ==
  (Succeeded /\ ~cfg.list) =>
    \A i \in DOMAIN sel :
      Ops(sel[i]) # <<>> => CoveredCells(sel[i]) = unwrap(Parts[sel[i]].size)

\* C14: a mapped output file has the declared size of its partition at all
\* times, and a partition without a declared size never has a file.
Thm_C14_SinkHasDeclaredSize ==
  \A p \in DOMAIN Parts :
    /\ image[p] # <<>> =>
         (is_some(Parts[p].size) /\ Len(image[p]) = unwrap(Parts[p].size))
    /\ ~is_some(Parts[p].size) =>
         (image[p] = <<>> /\ Parts[p].partition_name \notin disk)

\* The run is over; one partition was written to, opening another one
\* failed for want of a size
Wit_C14_SizedAndUnsized ==
  /\ pc = "done"
  /\ \E p \in DOMAIN Parts : image[p] # <<>> /\ \E t \in TasksOf(p) : task[t].n > 0
  /\ \E q \in DOMAIN Parts :
       ~is_some(Parts[q].size) /\ unwrap(result) = Err("unable to determine output file size")

\* C17: of the tasks failing in one run, one only has its error reported.
Cex_C17_OneErrorReported == Len(stderr) <= 1

\* ------------------------------------------- claims about interrupts
\* C15: an interrupt that arrives after the extraction has succeeded and the
\* registry has been cleared removes no file and leaves the directory.
Cex_C15_CleanupNoOpAfterSuccess ==
  [][(pc = "report" /\ pc' = "exited") => (disk' = disk /\ dir' = dir)]_vars

\* The handler found the lock taken
LockMissed == \E i \in DOMAIN stderr : stderr[i] = <<"Could not acquire cleanup lock">>

Thm_C18_TokenSticky == [][(pc = "start" => ~cancel) /\ (cancel => cancel')]_vars

\* The token was set by a failing task and the run has ended since
Wit_C18_SetThenRunEnded ==
  /\ cancel /\ pc = "done"
  /\ \E i \in DOMAIN stderr : stderr[i][1] = "Operation failed"

\* The names of the selected partitions, in the order of the manifest
RECURSIVE SelectedNamesFrom(_)
SelectedNamesFrom(p) ==
  IF p > Len(Parts) THEN <<>>
  ELSE (IF Selected(Parts[p]) THEN <<Parts[p].partition_name>> ELSE <<>>)
         \o SelectedNamesFrom(p + 1)

\* No two partitions have the same size: the size sort has one outcome
DistinctSizes ==
  \A p, q \in DOMAIN Parts : p # q => PartSize(Parts[p]) # PartSize(Parts[q])

\* C19: with --print-hash, when every selected partition has its hash line,
\* the lines are in the order of the manifest, whatever the sizes are.
Cex_C19_HashLinesManifestOrder ==
  (Succeeded /\ cfg.print_hash /\ Len(printed) = Len(sel) /\ DistinctSizes)
    => printed = SelectedNamesFrom(1)

\* The manifest has an operation of an incremental type
HasIncrementalType ==
  \E p \in DOMAIN Parts : \E k \in DOMAIN Ops(p) :
    Ops(p)[k].type \in GuardedTypes \cup Lz4Types

\* C20: a manifest with an operation of an incremental type is refused as
\* UnsupportedIncremental, and neither the directory nor a file is created.
Cex_C20_IncrementalRefusedEarly ==
  (HasIncrementalType /\ ~cfg.list) =>
    /\ disk = {}
    /\ dir = [exists |-> env.dir_existed, is_new |-> FALSE]
    /\ pc = "done" => unwrap(result) = Err("UnsupportedIncremental")

\* ------------------------------------------- claims about the options
\* The partition has an operation of an incremental type
IsIncremental(u) ==
  \E k \in DOMAIN u.operations : u.operations[k].type \in GuardedTypes \cup Lz4Types

\* The run has created nothing
NothingCreated ==
  /\ disk = {}
  /\ dir = [exists |-> env.dir_existed, is_new |-> FALSE]
  /\ registry = <<>>

\* C21: in list mode the run succeeds, labels a partition Incremental exactly
\* when one of its operations has an incremental type, and creates nothing.
Cex_C21_ListLabelsAndNoOutput ==
  cfg.list =>
    /\ NothingCreated
    /\ pc = "done" =>
         /\ unwrap(result).ok
         /\ printed = [i \in DOMAIN Parts |->
                        <<Parts[i].partition_name,
                          IF IsIncremental(Parts[i]) THEN "Incremental" ELSE "Full">>]

ManifestNames == {Parts[p].partition_name : p \in DOMAIN Parts}

\* C22: with --partitions, files are created for named partitions only, and a
\* requested name absent from the manifest fails the run with nothing created.
Thm_C22_OnlyNamedPartitions ==
  (~cfg.list /\ cfg.partitions # {}) =>
    /\ disk \subseteq cfg.partitions
    /\ ~(cfg.partitions \subseteq ManifestNames) =>
         (NothingCreated /\ (pc = "done" => ~unwrap(result).ok))

Wit_C22_OneOfTwoExtracted ==
  /\ Succeeded /\ ~cfg.list
  /\ cfg.partitions = {"a"} /\ ManifestNames = {"a", "b"}
  /\ \A p \in DOMAIN Parts : Ops(p) # <<>>
  /\ disk = {"a"}

\* The operation carries input data
CarriesData(op) == op.data_length # {} /\ \A n \in op.data_length : n > 0

\* A selected partition lacks its hash, or one of its operations that carries
\* data lacks the hash of that data
SelectedHashMissing ==
  \E p \in DOMAIN Parts :
    /\ Selected(Parts[p])
    /\ \/ Parts[p].hash = {}
       \/ \E k \in DOMAIN Ops(p) : CarriesData(Ops(p)[k]) /\ Ops(p)[k].data_sha256_hash = {}

MissingHashFailure == Failed /\ unwrap(result).err = "MissingHash"

\* C23: in strict mode a hash missing from a selected partition fails the
\* extraction with the missing-hash error before anything is created, and
\* only a hash missing from a selected partition does.
Thm_C23_StrictMissingHash ==
  (~cfg.list /\ cfg.strict) =>
    /\ SelectedHashMissing =>
         /\ NothingCreated
         /\ pc = "done" => (Failed /\ (~has_incremental_ops => MissingHashFailure))
    /\ MissingHashFailure => SelectedHashMissing

Wit_C23_OperationHashMissing ==
  /\ MissingHashFailure /\ cfg.strict /\ NothingCreated
  /\ \A p \in DOMAIN Parts : Parts[p].hash # {}
  /\ \E p \in DOMAIN Parts : ~Selected(Parts[p])

\* The file of the partition was mapped, every operation of the partition
\* has been applied, and the image is all zeros
FinalImageAllZero(p) ==
  /\ image[p] # <<>> /\ is_all_zero(image[p])
  /\ \A t \in TasksOf(p) : task[t].pc \in {"done", "post_failed", "post_cancelled"}

\* C24: with sanity checks enabled, a run that leaves the final image of a
\* selected partition all zeros fails, and no output file of the run stays.
Cex_C24_AllZeroImageFailsRun ==
  (cfg.sanity /\ ~cfg.list /\ pc = "done" /\ \E p \in DOMAIN Parts : FinalImageAllZero(p))
    => (Failed /\ disk = {})

IsPowerOfTwo(n) == \E k \in 0 .. 24 : n = 2 ^ k

SetupOver == pc \notin {"idle", "start"}
RejectedFor(kinds) == Failed /\ unwrap(result).err \in kinds
BlockSizeRejected == RejectedFor({"missing block_size", "invalid block size"})
ThreadCountRejected == RejectedFor({"Thread count"})

\* C25: a manifest is accepted exactly when its block_size is a power of two
\* within [512, 16 MiB], and a rejected one has created no output.
Cex_C25_BlockSizePowerOfTwo ==
  (SetupOver /\ ~ThreadCountRejected) =>
    /\ BlockSizeRejected <=>
         ~(\E b \in manifest.block_size :
             b >= MIN_BLOCK_SIZE /\ b <= MAX_BLOCK_SIZE /\ IsPowerOfTwo(b))
    /\ BlockSizeRejected => NothingCreated

\* C26: a requested thread count in [1, 256] is the size of the pool, and a
\* count of 0 or above 256 builds the default pool without failing the run.
Cex_C26_ThreadCountOrDefault ==
  SetupOver =>
    \A t \in cfg.threads :
      /\ ~ThreadCountRejected
      /\ get_threadpool(cfg.threads) = (IF t >= 1 /\ t <= MAX_THREADS THEN Some(t) ELSE None)

\* ------------------------------------------------- claims about the parser
\* The buffer begins with a header declaring these three values
Declares(v, ms, sg) ==
  \E magic \in ParseMagics :
    fin.head = SubSeq(ParseHeader(magic, v, ms, sg), 1, Min(fin.len, 24))

\* 256 MiB: four times the limit of the signature
MANIFEST_SIZE_LIMIT == 4 * MAX_SIGNATURE_SIZE

\* C27: Payload::parse rejects a declared manifest_size above 256 MiB and a
\* declared metadata_signature_size above 64 MiB, however long the buffer is.
Cex_C27_DeclaredSizesLimited ==
  (Validated /\ fin.len >= 24) =>
    \A v \in ParseVersions, ms \in ParseManifestSizes, sg \in ParseSignatureSizes :
      (/\ Declares(v, ms, sg)
       /\ ms > MANIFEST_SIZE_LIMIT \/ (v >= 2 /\ sg > MAX_SIGNATURE_SIZE))
        => ~fout[1].ok

\* C28: Payload::parse accepts a container only if its format_version is 1 or 2.
Cex_C28_VersionOneOrTwo ==
  Accepted =>
    \A v \in ParseVersions, ms \in ParseManifestSizes, sg \in ParseSignatureSizes :
      Declares(v, ms, sg) => v \in {1, 2}

\* C29: when Payload::parse succeeds, the manifest, the signature and the data
\* are the consecutive regions after the header of 24 bytes (version >= 2) or
\* 20 bytes, the signature being absent when its size is 0, and they end
\* within the buffer; a buffer shorter than its header, or than the regions
\* it declares, is rejected.
Thm_C29_RegionsSliceBuffer ==
  Validated =>
    \A v \in ParseVersions, ms \in ParseManifestSizes, sg \in ParseSignatureSizes :
      Declares(v, ms, sg) =>
        LET h == IF v >= 2 THEN 24 ELSE 20
            sig_size == IF v >= 2 THEN sg ELSE 0
        IN /\ fout[1].ok =>
                /\ fout[1].manifest = Slice(h, h + ms)
                /\ fout[1].metadata_signature =
                     (IF sig_size > 0 THEN Some(Slice(h + ms, h + ms + sig_size)) ELSE None)
                /\ fout[1].data = Slice(h + ms + sig_size, fin.len)
                /\ h + ms + sig_size <= fin.len
           /\ (fin.len < h \/ h + ms + sig_size > fin.len) => ~fout[1].ok

Wit_C29_ThreeRegions ==
  /\ Accepted
  /\ fout[1].file_format_version = 2
  /\ fout[1].manifest.hi > fout[1].manifest.lo
  /\ fout[1].metadata_signature # None
  /\ fout[1].data.hi > fout[1].data.lo

\* ------------------------------------------- claims about the size rule
\* The least multiple of block_size that is not below n
CeilToBlock(n, block_size) ==
  CHOOSE m \in n .. n + block_size - 1 : m % block_size = 0

DstTotal == SumSeq([i \in DOMAIN fin.dst_extents |-> fin.dst_extents[i].len])

\* C30: on either path the operation succeeds exactly when the number of
\* decoded bytes, rounded up to a multiple of block_size, is the total length
\* of the destination extents; data short by a block or more and data longer
\* than the extents both fail.
Thm_C30_ReplaceSizeRule ==
  fout # <<>> =>
    LET n == Len(fout[1].bytes)
        accept == CeilToBlock(n, fin.block_size) = DstTotal
    IN /\ fout[1].slice.ok <=> accept
       /\ fout[1].stream.ok <=> accept
       /\ (n + fin.block_size <= DstTotal \/ n > DstTotal)
            => (~fout[1].slice.ok /\ ~fout[1].stream.ok)

Wit_C30_PaddedAccepted ==
  /\ fout # <<>>
  /\ Len(fout[1].bytes) < DstTotal
  /\ Len(fin.dst_extents) = 2
  /\ fout[1].slice.ok /\ fout[1].stream.ok
  /\ Len(fout[1].stream.writes) = Len(fout[1].bytes)

\* ------------------------------------------- claims about the writer
\* The bytes the calls before call c accepted, and those of all calls
RECURSIVE AcceptedBefore(_)
AcceptedBefore(c) ==
  IF c <= 1 THEN <<>>
  ELSE AcceptedBefore(c - 1) \o SubSeq(fout.calls[c - 1].buf, 1, fout.calls[c - 1].n)

AcceptedBytes == AcceptedBefore(Len(fout.calls) + 1)

SlicesTotal == SumSeq([i \in DOMAIN fin |-> fin[i].len])

\* C31: each write call returns the smaller of the input length and the
\* capacity left before it, the accepted bytes lie contiguously from the
\* start of the slices in order, and the slice index never decreases.
Cex_C31_WriterFillsInOrder ==
  /\ \A c \in DOMAIN fout.calls :
       /\ fout.calls[c].n =
            Min(Len(fout.calls[c].buf), SlicesTotal - Len(AcceptedBefore(c)))
       /\ fout.calls[c].idx >= (IF c = 1 THEN 0 ELSE fout.calls[c - 1].idx)
  /\ fout.writes = [k \in 1 .. Len(AcceptedBytes) |-> <<k - 1, AcceptedBytes[k]>>]

\* ------------------------------------------- claims about the run, continued
\* The cells of the destination extents of an operation
CellsOf(op) ==
  UNION {{c \in 1 .. U64_MAX :
            /\ c > Start(op.dst_extents[i]) * CellsPerBlock
            /\ c <= End(op.dst_extents[i]) * CellsPerBlock} : i \in DOMAIN op.dst_extents}

\* C32: after a successful extraction every cell in the destination extents
\* of a Zero or Discard operation is zero in the image, whatever the
\* interleaving with the other operations of the partition was.
Thm_C32_ZeroExtentsReadZero ==
  (Succeeded /\ ~cfg.list) =>
    \A i \in DOMAIN sel : \A k \in DOMAIN Ops(sel[i]) :
      Ops(sel[i])[k].type \in {"Zero", "Discard"} =>
        \A c \in CellsOf(Ops(sel[i])[k]) :
          c \in DOMAIN image[sel[i]] /\ image[sel[i]][c] = 0

Wit_C32_ZeroBesideData ==
  /\ Succeeded /\ ~cfg.list
  /\ \E i \in DOMAIN sel :
       /\ \E k \in DOMAIN Ops(sel[i]) :
            Ops(sel[i])[k].type = "Zero" /\ CellsOf(Ops(sel[i])[k]) # {}
       /\ \E c \in DOMAIN image[sel[i]] : image[sel[i]][c] # 0

\* C33: a task that finds the cancellation flag set when it starts returns at
\* once: it stores nothing, leaves the counter of its partition and the
\* post-processing alone, and does nothing afterwards.
Thm_C33_CancelledTaskSkips ==
  [][\A t \in TaskIds :
       /\ (task[t].pc = "spawned" /\ cancel /\ task'[t] # task[t]) =>
            /\ task'[t] = [task[t] EXCEPT !.pc = "skipped"]
            /\ image' = image /\ remaining' = remaining /\ post_runs' = post_runs
       /\ task[t].pc = "skipped" =>
            (task'[t] = task[t] /\ task[t].n = 0 /\ task[t].writes = <<>>)]_vars

Wit_C33_SkippedBesideFailed ==
  /\ pc = "done" /\ cancel
  /\ \E t \in TaskIds : task[t].pc = "skipped"
  /\ \E t \in TaskIds : task[t].pc = "failed"

\* The scope has returned
ScopeLeft == pc \in {"after_scope", "report", "done"}

\* C34: the scope returns only when every spawned task has finished, also
\* when the flag is set or the spawning loop returned an error, so that the
\* check and the removals after the scope find no task at work.
Thm_C34_ScopeJoinsAllTasks ==
  ScopeLeft => \A t \in TaskIds : task[t].pc # "spawned" /\ TaskOver(t)

Wit_C34_LoopErrorAfterTaskWrote ==
  /\ pc = "done" /\ is_some(scope_err)
  /\ \E t \in TaskIds : task[t].pc \in PostPcs \cup {"done"} /\ task[t].n > 0

\* C35: no cleanup entry point that runs in an interrupt or a panic context
\* ever waits for the lock of the cleanup registry.
Cex_C35_NoHandlerWaitsForLock ==
  \A t \in TaskIds : task[t].pc # "hook_waiting"

\* C38: while the interrupt handler or the panic hook can run during the
\* extraction, every output file that exists is in the cleanup registry.
Cex_C38_CreatedFilesRegistered ==
  pc \in {"loop", "open", "register", "join"} => disk \subseteq Range(registry)

\* C36: at every dispatch level and for every length of the buffer,
\* is_all_zero answers true exactly when every byte of the buffer is zero.
Thm_C36_ZeroCheckExact ==
  fout # <<>> => (fout[1] <=> \A j \in DOMAIN fin.data : fin.data[j] = 0)

Wit_C36_ZeroLoadsNonZeroTail ==
  /\ fout # <<>> /\ ~fout[1]
  /\ fin.level = "Sse2"
  /\ Len(fin.data) = 2 * Lane + 1
  /\ \A j \in 1 .. 2 * Lane : fin.data[j] = 0

\* C37: under fair scheduling every run ends: every spawned task is over,
\* the scope has returned and Cmd::run has returned Ok or Err, with the
\* cancellation flag set or not.
Thm_C37_RunTerminates ==
  <>(pc = "done" /\ is_some(result) /\ \A t \in TaskIds : TaskOver(t))

Wit_C37_EndedCancelled ==
  /\ pc = "done" /\ cancel /\ is_some(result)
  /\ \E t \in TaskIds : task[t].pc = "skipped"
  /\ \E t \in TaskIds : task[t].n > 0

\* C39: an extraction run returns Ok only if the cancellation flag is not
\* set, every operation of every selected partition has run to its end
\* without error, all its stores made, and the post-processing of every
\* selected partition that has an operation was entered once and left
\* through its last step; no task of the run failed or was skipped.
Thm_C39_SuccessMeansAllDone ==
  (Succeeded /\ ~cfg.list) =>
    /\ ~cancel
    /\ \A p \in DOMAIN Parts : Selected(Parts[p]) => \E i \in DOMAIN sel : sel[i] = p
    /\ \A i \in DOMAIN sel :
         /\ \A t \in TasksOf(sel[i]) :
              task[t].pc = "done" /\ task[t].ok /\ task[t].n = Len(task[t].writes)
         /\ Ops(sel[i]) # <<>> => post_runs[sel[i]] = 1
    /\ \A t \in TaskIds : task[t].pc \in {"none", "done"}

Wit_C39_TwoPartitionsDone ==
  /\ Succeeded /\ ~cfg.list
  /\ Len(sel) >= 2
  /\ \A i \in DOMAIN sel : Ops(sel[i]) # <<>>
  /\ \E t \in TaskIds : task[t].n > 0

====
